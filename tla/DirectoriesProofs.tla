-------------------------- MODULE DirectoriesProofs --------------------------
(***************************************************************************)
(* Theorems about Directories, for any tree of directories, and any number *)
(* of edits, transfers and failures.  The invariant follows a cycle from   *)
(* its scan to its end: what its plan says of a directory, what it has     *)
(* done about it, and what the index will say of it to the next cycle.     *)
(***************************************************************************)
EXTENDS Directories, FiniteSetTheorems, TLAPS

\* What was in p's folder still is, or p's user has removed it.
Accounted(p, d) == There(p, d) \/ d \in removed[p]

\* The directories that the cycle acts on, and those of them that it deletes.
Acted  == Actions(cycle.previous, cycle.local, cycle.remote)
Doomed == {d \in Acted : IsDelete(d, cycle.previous, cycle.local, cycle.remote)}

\* A directory that is there has those above it.
Rooted(tree) == \A d \in Dirs : tree[d] # NoDir => \A a \in Above[d] : tree[a] # NoDir

Snapshots == Rooted(cycle.local) /\ Rooted(cycle.remote)

\* What has a child is there.
StraysThere == \A p \in Peers, d \in Dirs : d \in strays[p] => There(p, d)

\* A directory that is going to the trash had nothing in it.
Moving ==
  cycle.step = "move" =>
    /\ cycle.at \in cycle.deletes
    /\ cycle.kept \cap ({cycle.at} \cup Below(cycle.at)) = {}
    /\ cycle.seen \cap Below(cycle.at) = {}

\* A manifest that is on its way to the responder is there to send.
Sending ==
  cycle.step = "send" =>
    /\ cycle.at \in Dirs /\ Restored(cycle.at) # NoDir
    /\ cycle.deletes = {} /\ Accounted(Initiator, cycle.at)

\* While the responder lists, the index holds what the initiator's scan found.
Listing ==
  cycle.step = "list" =>
    /\ index[Initiator] = cycle.local
    /\ \A d \in Dirs : cycle.local[d] # NoDir => Accounted(Initiator, d)

\* How far a cycle has got with its plan, and with each directory.
PlanKept ==
  /\ cycle.deletes \subseteq Doomed /\ cycle.restores \cap Doomed = {}
  /\ cycle.deletes # {} => Acted \ Doomed \subseteq cycle.restores

ProgressWith(d) ==
  /\ d \in Doomed /\ (d \notin cycle.deletes \/ cycle.local[d] = NoDir)
       => index[Initiator][d] = NoDir
  /\ d \in Acted \ Doomed => d \in cycle.restores \/ \A p \in Peers : Accounted(p, d)
  /\ d \notin Acted /\ cycle.local[d] = NoDir
       => index[Initiator][d] = NoDir /\ d \notin cycle.restores
  /\ d \notin Acted /\ cycle.local[d] # NoDir => \A p \in Peers : Accounted(p, d)

Progress ==
  cycle.step \in {"files", "apply", "move", "send"} =>
    PlanKept /\ \A d \in Dirs : ProgressWith(d)

\* After a cycle that did all it had planned, what the next one compares with was
\* in both folders.
Settled ==
  settled => \A d \in Dirs :
    /\ cycle.step = "idle" /\ index[Initiator][d] # NoDir => \A p \in Peers : Accounted(p, d)
    /\ cycle.step # "idle" /\ cycle.previous[d] # NoDir =>
         /\ cycle.local[d] # NoDir \/ d \in cycle.gone[Initiator]
         /\ IF cycle.step = "list" THEN Accounted(Responder, d)
            ELSE cycle.remote[d] # NoDir \/ d \in cycle.gone[Responder]

DirectoriesInv ==
  /\ TypeOK /\ Snapshots /\ StraysThere /\ Moving /\ Sending /\ Listing /\ Progress /\ Settled

-------------------------------------------------------------------------------
(* There is always another manifest. *)

LEMMA SevenAreNotAll ==
  ASSUME NEW S, IsFiniteSet(S), Cardinality(S) <= 7
  PROVE  Manifests \ S # {}
<1>1. Cardinality(0 .. 7) = 8
  <2>1. 0 \in Int /\ 7 \in Int
    OBVIOUS
  <2>2. Cardinality(0 .. 7) = IF 0 > 7 THEN 0 ELSE 7 - 0 + 1
    BY <2>1, FS_Interval, Zenon
  <2>. QED BY <2>2
<1>. SUFFICES ASSUME 0 .. 7 \subseteq S PROVE FALSE
  BY DEF Manifests
<1>2. Cardinality(0 .. 7) <= Cardinality(S)
  BY FS_Subset
<1>3. Cardinality(S) \in Nat
  BY FS_CardinalityType
<1>. QED BY <1>1, <1>2, <1>3

LEMMA LeastManifest ==
  ASSUME NEW S, S \subseteq Manifests, S # {}
  PROVE  \E x \in S : \A y \in S : x <= y
<1>. DEFINE R == OpToRel(<, Nat)
<1>1. IsWellFoundedOn(R, Nat)
  BY NatLessThanWellFounded, Zenon
<1>2. S \subseteq Nat
  BY DEF Manifests
<1>3. PICK x \in S : \A y \in S : <<y, x>> \notin R
  <2>. HIDE DEF R
  <2>. QED BY <1>1, <1>2, WFMin, Zenon
<1>4. ASSUME NEW y \in S PROVE x <= y
  <2>1. ~(y < x)
    BY <1>2, <1>3 DEF OpToRel
  <2>. QED BY <1>2, <2>1
<1>. QED BY <1>4

LEMMA NewIsManifest ==
  ASSUME TypeOK, NEW d \in Dirs
  PROVE  New(d) \in Manifests
<1>. DEFINE inUse == {disk[p][d] : p \in Peers} \cup {index[p][d] : p \in Peers}
                       \cup {cycle.previous[d], cycle.local[d], cycle.remote[d]}
            S == Manifests \ inUse
<1>1. inUse = {disk[Initiator][d], disk[Responder][d], index[Initiator][d], index[Responder][d],
               cycle.previous[d], cycle.local[d], cycle.remote[d]}
  BY DEF Peers
<1>2. S # {} /\ S \subseteq Manifests
  <2>. DEFINE nth(n) == CASE n = 1 -> disk[Initiator][d]  [] n = 2 -> disk[Responder][d]
                          [] n = 3 -> index[Initiator][d] [] n = 4 -> index[Responder][d]
                          [] n = 5 -> cycle.previous[d]   [] n = 6 -> cycle.local[d]
                          [] n = 7 -> cycle.remote[d]
              g == [n \in 1 .. 7 |-> nth(n)]
  <2>1. g \in [1 .. 7 -> inUse]
    BY DEF Peers
  <2>2. inUse = {g[n] : n \in 1 .. 7}
    <3>1. g[1] = disk[Initiator][d] /\ g[2] = disk[Responder][d]
          /\ g[3] = index[Initiator][d] /\ g[4] = index[Responder][d]
          /\ g[5] = cycle.previous[d] /\ g[6] = cycle.local[d] /\ g[7] = cycle.remote[d]
      OBVIOUS
    <3>. HIDE DEF g, inUse
    <3>. QED BY <1>1, <2>1, <3>1
  <2>3. IsFiniteSet(1 .. 7) /\ Cardinality(1 .. 7) = 7
    <3>1. 1 \in Int /\ 7 \in Int
      OBVIOUS
    <3>2. IsFiniteSet(1 .. 7) /\ Cardinality(1 .. 7) = IF 1 > 7 THEN 0 ELSE 7 - 1 + 1
      BY <3>1, FS_Interval, Zenon
    <3>. QED BY <3>2
  <2>. HIDE DEF inUse, g
  <2>4. IsFiniteSet(inUse) /\ Cardinality(inUse) <= 7
    <3>1. g \in Surjection(1 .. 7, inUse)
      BY <2>1, <2>2 DEF Surjection
    <3>. QED BY <2>3, <3>1, FS_Surjection
  <2>. QED BY <2>4, SevenAreNotAll
<1>3. New(d) = CHOOSE m \in S : \A k \in S : m <= k
  BY DEF New
<1>. HIDE DEF S
<1>4. \E x \in S : \A y \in S : x <= y
  BY <1>2, LeastManifest
<1>. QED BY <1>2, <1>3, <1>4
-------------------------------------------------------------------------------
(* The directory tree. *)

LEMMA Trees ==
  ASSUME TypeOK, NEW p \in Peers
  PROVE  disk[p] \in Tree /\ Rooted(disk[p]) /\ index[p] \in Tree
BY DEF TypeOK, Rooted

\* Where a directory is after some have been renewed.
LEMMA RenewedTree ==
  ASSUME TypeOK, NEW p \in Peers, NEW ds \in SUBSET Dirs
  PROVE  /\ Renewed(p, ds) \in Tree
         /\ \A e \in Dirs : Renewed(p, ds)[e] = NoDir <=> e \notin ds /\ ~There(p, e)
<1>1. \A e \in Dirs : New(e) \in Manifests
  BY NewIsManifest
<1>2. NoDir \notin Manifests
  BY DirectoriesAssumption
<1>. QED BY <1>1, <1>2, Trees DEF Renewed, Tree, There

LEMMA ParentsAbove ==
  ASSUME NEW d \in Dirs
  PROVE  Parents(d) \subseteq Above[d] /\ Above[d] \in SUBSET Dirs /\ d \notin Above[d]
BY DirectoriesAssumption DEF Parents

\* Renewing directories that are there keeps every directory where it was.
LEMMA RenewedStays ==
  ASSUME TypeOK, NEW p \in Peers, NEW ds \in SUBSET Dirs, \A d \in ds : There(p, d)
  PROVE  /\ Renewed(p, ds) \in Tree /\ Rooted(Renewed(p, ds))
         /\ \A e \in Dirs : Renewed(p, ds)[e] = NoDir <=> ~There(p, e)
<1>1. \A e \in Dirs : Renewed(p, ds)[e] = NoDir <=> ~There(p, e)
  BY RenewedTree
<1>. QED BY <1>1, RenewedTree, Trees, ParentsAbove DEF Rooted, There

LEMMA WithoutTree ==
  ASSUME TypeOK, NEW p \in Peers, NEW d \in Dirs, There(p, d)
  PROVE  /\ Without(p, d) \in Tree /\ Rooted(Without(p, d))
         /\ \A e \in Dirs : Without(p, d)[e] = NoDir <=> e \in {d} \cup Below(d) \/ ~There(p, e)
<1>1. Parents(d) \in SUBSET Dirs /\ \A a \in Parents(d) : There(p, a)
  BY ParentsAbove, Trees DEF Rooted, There
<1>2. /\ Renewed(p, Parents(d)) \in Tree /\ Rooted(Renewed(p, Parents(d)))
      /\ \A e \in Dirs : Renewed(p, Parents(d))[e] = NoDir <=> ~There(p, e)
  BY <1>1, RenewedStays
<1>3. /\ Without(p, d) \in Tree
      /\ \A e \in Dirs : Without(p, d)[e] = NoDir <=> e \in {d} \cup Below(d) \/ ~There(p, e)
  BY <1>2 DEF Without, Tree
<1>4. ASSUME NEW e \in Dirs, Without(p, d)[e] # NoDir, NEW a \in Above[e]
      PROVE  Without(p, d)[a] # NoDir
  <2>1. a \in Dirs /\ There(p, a)
    BY <1>3, <1>4, Trees, ParentsAbove DEF Rooted, There
  <2>2. a \notin {d} \cup Below(d)
    BY <1>3, <1>4, <2>1, DirectoriesAssumption DEF Below
  <2>. QED BY <1>3, <2>1, <2>2
<1>. QED BY <1>3, <1>4 DEF Rooted

\* p's tree once a manifest has been applied to d.
Applied(p, d, manifest) ==
  LET made == Missing(p, d)
      renewed == made \cup {a \in UNION {Parents(e) : e \in made \cup {d}} : There(p, a)}
  IN [Renewed(p, renewed) EXCEPT ![d] = manifest]

LEMMA AppliedTree ==
  ASSUME TypeOK, NEW p \in Peers, NEW d \in Dirs, NEW manifest \in Manifests
  PROVE  /\ Applied(p, d, manifest) \in Tree /\ Rooted(Applied(p, d, manifest))
         /\ \A e \in Dirs : Applied(p, d, manifest)[e] = NoDir
                              <=> e # d /\ e \notin Missing(p, d) /\ ~There(p, e)
<1>. DEFINE made == Missing(p, d)
            renewed == made \cup {a \in UNION {Parents(e) : e \in made \cup {d}} : There(p, a)}
<1>1. made \in SUBSET Dirs /\ renewed \in SUBSET Dirs
  BY ParentsAbove DEF Missing
<1>2. /\ Renewed(p, renewed) \in Tree
      /\ \A e \in Dirs : Renewed(p, renewed)[e] = NoDir <=> e \notin renewed /\ ~There(p, e)
  BY <1>1, RenewedTree
<1>3. \A e \in Dirs : Renewed(p, renewed)[e] = NoDir <=> e \notin made /\ ~There(p, e)
  BY <1>2
<1>4. Applied(p, d, manifest) = [Renewed(p, renewed) EXCEPT ![d] = manifest]
  BY DEF Applied
<1>. HIDE DEF renewed
<1>5. /\ Applied(p, d, manifest) \in Tree
      /\ \A e \in Dirs : Applied(p, d, manifest)[e] = NoDir
                           <=> e # d /\ e \notin Missing(p, d) /\ ~There(p, e)
  BY <1>2, <1>3, <1>4, DirectoriesAssumption DEF Tree
<1>6. ASSUME NEW e \in Dirs, Applied(p, d, manifest)[e] # NoDir, NEW a \in Above[e]
      PROVE  Applied(p, d, manifest)[a] # NoDir
  <2>1. a \in Dirs
    BY ParentsAbove
  <2>2. CASE There(p, e)
    BY <1>5, <2>1, <2>2, Trees DEF Rooted, There
  <2>3. CASE e = d \/ e \in Missing(p, d)
    <3>1. a \in Above[d]
      BY <1>6, <2>3, DirectoriesAssumption DEF Missing
    <3>. QED BY <1>5, <2>1, <3>1 DEF Missing
  <2>. QED BY <1>5, <1>6, <2>2, <2>3
<1>. QED BY <1>5, <1>6 DEF Rooted

LEMMA ApplyIsApplied ==
  ASSUME NEW p \in Peers, NEW d \in Dirs, NEW manifest \in Manifests, Apply(p, d, manifest)
  PROVE  /\ disk' = [disk EXCEPT ![p] = Applied(p, d, manifest)]
         /\ removed' = [removed EXCEPT ![p] = @ \ ({d} \cup Missing(p, d))]
BY DEF Apply, Applied

-------------------------------------------------------------------------------
(* What the plan does with a directory. *)

LEMMA PlanOf ==
  ASSUME TypeOK, NEW d \in Dirs
  PROVE  /\ d \in Acted <=> cycle.local[d] # cycle.remote[d]
         /\ d \in Doomed => \/ /\ cycle.local[d] = NoDir /\ cycle.remote[d] = cycle.previous[d]
                               /\ cycle.previous[d] # NoDir /\ DeletedAt(d) = Responder
                            \/ /\ cycle.remote[d] = NoDir /\ cycle.local[d] = cycle.previous[d]
                               /\ cycle.previous[d] # NoDir /\ DeletedAt(d) = Initiator
         /\ d \in Acted \ Doomed => Restored(d) \in Manifests
<1>1. /\ cycle.local[d] \in Manifests \cup {NoDir} /\ cycle.remote[d] \in Manifests \cup {NoDir}
      /\ cycle.previous[d] \in Manifests \cup {NoDir}
  BY DEF TypeOK, Cycle, Tree
<1>2. Initiator # Responder
  BY DirectoriesAssumption
<1>. QED BY <1>1, <1>2
  DEF Acted, Actions, Doomed, IsDelete, DeletedAt, Other, Planned, Source, Restored

-------------------------------------------------------------------------------
(* Types. *)

LEMMA DiskOf ==
  ASSUME TypeOK, NEW p \in Peers, NEW t, t \in Tree, Rooted(t),
         disk' = [disk EXCEPT ![p] = t]
  PROVE  /\ disk' \in [Peers -> Tree]
         /\ \A q \in Peers, d \in Dirs : disk'[q][d] # NoDir => \A a \in Above[d] : disk'[q][a] # NoDir
BY DEF TypeOK, Rooted

LEMMA IndexOf ==
  ASSUME TypeOK, NEW p \in Peers, NEW d \in Dirs, NEW manifest \in Manifests \cup {NoDir},
         index' = [index EXCEPT ![p][d] = manifest]
  PROVE  index' \in [Peers -> Tree]
BY DEF TypeOK, Tree

\* The parts of TypeOK that most steps leave alone.
TreesOK == /\ disk \in [Peers -> Tree]
           /\ \A p \in Peers, d \in Dirs : disk[p][d] # NoDir => \A a \in Above[d] : disk[p][a] # NoDir
Counts == /\ edits \in 0 .. MaxEdits /\ transfers \in 0 .. MaxTransfers
          /\ failures \in 0 .. MaxFailures

LEMMA CountsOf ==
  ASSUME TypeOK
  PROVE  /\ failures < MaxFailures /\ failures' = failures + 1 => failures' \in 0 .. MaxFailures
         /\ transfers < MaxTransfers /\ transfers' = transfers + 1 => transfers' \in 0 .. MaxTransfers
<1>1. /\ failures \in 0 .. MaxFailures /\ transfers \in 0 .. MaxTransfers
      /\ MaxFailures \in Nat /\ MaxTransfers \in Nat
  BY DirectoriesAssumption DEF TypeOK
<1>. QED BY <1>1

LEMMA IdleIsCycle == IdleCycle \in Cycle
BY DEF IdleCycle, Cycle, NoDirs, Tree

LEMMA PeersOf ==
  /\ Initiator \in Peers /\ Responder \in Peers
  /\ \A p \in Peers : Other(p) \in Peers /\ (p = Initiator \/ p = Responder)
  /\ \A d : DeletedAt(d) \in Peers
BY DEF Peers, Other, DeletedAt

LEMMA DeletedIsCycle ==
  ASSUME cycle \in Cycle, NEW d
  PROVE  Deleted(d) \in Cycle
BY DEF Deleted, Cycle

LEMMA SentIsCycle ==
  ASSUME cycle \in Cycle, NEW d
  PROVE  Sent(d) \in Cycle
BY DEF Sent, Cycle

LEMMA RestoredType ==
  ASSUME cycle \in Cycle, NEW d \in Dirs
  PROVE  Restored(d) \in Manifests \cup {NoDir}
BY DEF Restored, Cycle, Tree

LEMMA TrashStep ==
  ASSUME TypeOK, NEW d \in Dirs, Trash(d)
  PROVE  TreesOK' /\ strays' \in [Peers -> SUBSET Dirs]
<1>1. DeletedAt(d) \in Peers
  BY PeersOf
<1>2. Without(DeletedAt(d), d) \in Tree /\ Rooted(Without(DeletedAt(d), d))
  BY <1>1, WithoutTree DEF Trash
<1>. QED BY <1>1, <1>2, DiskOf DEF Trash, TreesOK, TypeOK

LEMMA ApplyStep ==
  ASSUME TypeOK, NEW p \in Peers, NEW d \in Dirs, NEW manifest \in Manifests, Apply(p, d, manifest)
  PROVE  TreesOK' /\ removed' \in [Peers -> SUBSET Dirs]
<1>1. Applied(p, d, manifest) \in Tree /\ Rooted(Applied(p, d, manifest))
  BY AppliedTree
<1>. QED BY <1>1, ApplyIsApplied, DiskOf DEF TreesOK, TypeOK

LEMMA UserTypes ==
  ASSUME TypeOK, NEW p \in Peers, NEW d \in Dirs,
         UserMake(p, d) \/ UserChange(p, d) \/ UserStray(p, d) \/ UserRemove(p, d)
  PROVE  TypeOK'
<1>1. Counts' /\ UNCHANGED <<index, cycle, settled>>
  BY DirectoriesAssumption DEF TypeOK, Counts, UserMake, UserChange, UserStray, UserRemove
<1>2. strays' \in [Peers -> SUBSET Dirs] /\ removed' \in [Peers -> SUBSET Dirs]
  BY DEF TypeOK, UserMake, UserChange, UserStray, UserRemove, Below
<1>3. CASE UserMake(p, d)
  <2>1. {d} \cup Parents(d) \in SUBSET Dirs /\ \A a \in Parents(d) : There(p, a)
    BY <1>3, ParentsAbove DEF UserMake
  <2>2. Renewed(p, {d} \cup Parents(d)) \in Tree
        /\ \A e \in Dirs : Renewed(p, {d} \cup Parents(d))[e] = NoDir <=> e # d /\ ~There(p, e)
    BY <2>1, RenewedTree
  <2>3. Rooted(Renewed(p, {d} \cup Parents(d)))
    BY <1>3, <2>2, Trees, ParentsAbove DEF Rooted, There, UserMake
  <2>4. disk' = [disk EXCEPT ![p] = Renewed(p, {d} \cup Parents(d))]
    BY <1>3 DEF UserMake
  <2>5. TreesOK'
    BY <2>2, <2>3, <2>4, DiskOf DEF TreesOK
  <2>. QED BY <1>1, <1>2, <2>5 DEF TypeOK, TreesOK, Counts
<1>4. CASE UserChange(p, d) \/ UserStray(p, d)
  <2>1. There(p, d) /\ disk' = [disk EXCEPT ![p] = Renewed(p, {d})]
    BY <1>4 DEF UserChange, UserStray
  <2>2. Renewed(p, {d}) \in Tree /\ Rooted(Renewed(p, {d}))
    BY <2>1, RenewedStays
  <2>3. TreesOK'
    BY <2>1, <2>2, DiskOf DEF TreesOK
  <2>. QED BY <1>1, <1>2, <2>3 DEF TypeOK, TreesOK, Counts
<1>5. CASE UserRemove(p, d)
  <2>1. There(p, d) /\ disk' = [disk EXCEPT ![p] = Without(p, d)]
    BY <1>5 DEF UserRemove
  <2>2. Without(p, d) \in Tree /\ Rooted(Without(p, d))
    BY <2>1, WithoutTree
  <2>3. TreesOK'
    BY <2>1, <2>2, DiskOf DEF TreesOK
  <2>. QED BY <1>1, <1>2, <2>3 DEF TypeOK, TreesOK, Counts
<1>. QED BY <1>3, <1>4, <1>5

LEMMA PlanTypes ==
  ASSUME TypeOK, Scan \/ List \/ Done \/ Abort
  PROVE  TypeOK'
<1>1. CASE Scan
  <2>1. index' \in [Peers -> Tree]
    BY <1>1, PeersOf DEF Scan, TypeOK
  <2>2. cycle' \in Cycle
    <3>1. IdleCycle.gone = [p \in Peers |-> {}]
      BY DEF IdleCycle
    <3>2. [IdleCycle.gone EXCEPT ![Initiator] = removed[Initiator]] \in [Peers -> SUBSET Dirs]
      BY <3>1, PeersOf DEF TypeOK
    <3>3. disk[Initiator] \in Tree /\ index[Initiator] \in Tree
      BY PeersOf, Trees
    <3>4. cycle' = [IdleCycle EXCEPT !.step = "list", !.previous = index[Initiator],
                      !.local = disk[Initiator],
                      !.gone = [IdleCycle.gone EXCEPT ![Initiator] = removed[Initiator]]]
      BY <1>1 DEF Scan, Remembered, IdleCycle
    <3>. QED BY <3>2, <3>3, <3>4, IdleIsCycle DEF Cycle
  <2>. QED BY <1>1, <2>1, <2>2 DEF Scan, TypeOK
<1>2. CASE List
  <2>1. index' \in [Peers -> Tree]
    BY <1>2, PeersOf DEF List, TypeOK
  <2>2. cycle' \in Cycle
    <3>1. [cycle.gone EXCEPT ![Responder] = removed[Responder]] \in [Peers -> SUBSET Dirs]
      BY PeersOf DEF TypeOK, Cycle
    <3>2. disk[Responder] \in Tree
      BY PeersOf, Trees
    <3>. DEFINE actions == Actions(cycle.previous, cycle.local, disk[Responder])
                deletes == {d \in actions : IsDelete(d, cycle.previous, cycle.local, disk[Responder])}
    <3>3. actions \in SUBSET Dirs /\ deletes \in SUBSET Dirs
      BY DEF Actions
    <3>4. cycle' = [cycle EXCEPT !.step = "files", !.remote = disk[Responder],
                      !.gone = [cycle.gone EXCEPT ![Responder] = removed[Responder]],
                      !.deletes = deletes, !.restores = actions \ deletes]
      BY <1>2 DEF List, TypeOK, Cycle
    <3>. HIDE DEF actions, deletes
    <3>. QED BY <3>1, <3>2, <3>3, <3>4 DEF TypeOK, Cycle
  <2>. QED BY <1>2, <2>1, <2>2 DEF List, TypeOK
<1>3. CASE Done
  BY <1>3, IdleIsCycle DEF Done, TypeOK
<1>4. CASE Abort
  BY <1>4, IdleIsCycle, CountsOf DEF Abort, CycleFails, TypeOK
<1>. QED BY <1>1, <1>2, <1>3, <1>4

LEMMA DeleteTypes ==
  ASSUME TypeOK, NEW d \in Dirs,
         InspectEmpty(d) \/ Retain(d) \/ Move(d) \/ MoveUncommitted(d) \/ DeleteMissing(d)
  PROVE  TypeOK'
<1>1. CASE InspectEmpty(d)
  <2>1. strays[DeletedAt(d)] \in SUBSET Dirs
    BY PeersOf DEF TypeOK
  <2>2. cycle' \in Cycle
    BY <1>1, <2>1 DEF InspectEmpty, TypeOK, Cycle
  <2>. QED BY <1>1, <2>2 DEF InspectEmpty, TypeOK
<1>2. CASE Retain(d)
  <2>1. index' \in [Peers -> Tree]
    BY <1>2, PeersOf DEF Retain, TypeOK, Tree
  <2>. QED BY <1>2, <2>1, DeletedIsCycle DEF Retain, TypeOK
<1>3. CASE Move(d)
  <2>1. TreesOK' /\ strays' \in [Peers -> SUBSET Dirs]
    BY <1>3, TrashStep DEF Move
  <2>2. index' \in [Peers -> Tree]
    BY <1>3, PeersOf DEF Move, TypeOK, Tree
  <2>. QED BY <1>3, <2>1, <2>2, DeletedIsCycle DEF Move, TypeOK, TreesOK
<1>4. CASE MoveUncommitted(d)
  <2>1. TreesOK' /\ strays' \in [Peers -> SUBSET Dirs]
    BY <1>4, TrashStep DEF MoveUncommitted
  <2>. QED BY <1>4, <2>1, IdleIsCycle, CountsOf
       DEF MoveUncommitted, CycleFails, TypeOK, TreesOK
<1>5. CASE DeleteMissing(d)
  BY <1>5, IdleIsCycle DEF DeleteMissing, CycleFails, TypeOK
<1>. QED BY <1>1, <1>2, <1>3, <1>4, <1>5

\* Only a manifest that is known is applied.
LEMMA AppliedKnown ==
  ASSUME TypeOK, Sending, NEW d \in Dirs,
         Deepest(d, ToRestore) \/ (cycle.step = "send" /\ cycle.at = d)
  PROVE  Restored(d) \in Manifests
<1>1. Restored(d) \in Manifests \cup {NoDir}
  BY RestoredType DEF TypeOK
<1>. QED BY <1>1 DEF Sending, Deepest, ToRestore

LEMMA RestoreTypes ==
  ASSUME TypeOK, Sending, NEW d \in Dirs,
         Restore(d) \/ Send(d) \/ ApplyUncommitted(d)
  PROVE  TypeOK'
<1>1. CASE Restore(d)
  <2>1. Restored(d) \in Manifests
    BY <1>1, AppliedKnown DEF Restore
  <2>2. TreesOK' /\ removed' \in [Peers -> SUBSET Dirs]
    BY <1>1, <2>1, ApplyStep, PeersOf DEF Restore
  <2>3. index' \in [Peers -> Tree]
    BY <1>1, <2>1, IndexOf, PeersOf DEF Restore
  <2>4. cycle' \in Cycle
    BY <1>1 DEF Restore, TypeOK, Cycle
  <2>. QED BY <1>1, <2>2, <2>3, <2>4 DEF Restore, TypeOK, TreesOK
<1>2. CASE Send(d)
  <2>1. Restored(d) \in Manifests
    BY <1>2, AppliedKnown DEF Send
  <2>2. TreesOK' /\ removed' \in [Peers -> SUBSET Dirs]
    BY <1>2, <2>1, ApplyStep, PeersOf DEF Send
  <2>3. index' \in [Peers -> Tree]
    BY <1>2, <2>1, IndexOf, PeersOf DEF Send
  <2>. QED BY <1>2, <2>2, <2>3, SentIsCycle DEF Send, TypeOK, TreesOK
<1>3. CASE ApplyUncommitted(d)
  <2>1. Restored(d) \in Manifests /\ New(d) \in Manifests
    BY <1>3, AppliedKnown, NewIsManifest DEF ApplyUncommitted
  <2>2. PICK p \in Peers, manifest \in Manifests : Apply(p, d, manifest)
    BY <1>3, <2>1, PeersOf DEF ApplyUncommitted
  <2>3. TreesOK' /\ removed' \in [Peers -> SUBSET Dirs]
    BY <2>2, ApplyStep
  <2>. QED BY <1>3, <2>3, IdleIsCycle, CountsOf
       DEF ApplyUncommitted, CycleFails, TypeOK, TreesOK
<1>. QED BY <1>1, <1>2, <1>3

LEMMA TransferTypes ==
  ASSUME TypeOK, NEW p \in Peers, NEW d \in Dirs, TransferFile(p, d)
  PROVE  TypeOK'
<1>1. Renewed(p, {d}) \in Tree /\ Rooted(Renewed(p, {d}))
  BY RenewedStays DEF TransferFile
<1>2. TreesOK'
  BY <1>1, DiskOf DEF TreesOK, TransferFile
<1>3. cycle' \in Cycle
  BY ParentsAbove DEF TransferFile, TypeOK, Cycle
<1>. QED BY <1>2, <1>3, CountsOf DEF TransferFile, TypeOK, TreesOK
LEMMA TypeStep ==
  ASSUME TypeOK, Sending, [Next]_vars
  PROVE  TypeOK'
<1>1. CASE UNCHANGED vars
  BY <1>1 DEF vars, TypeOK
<1>2. CASE Next
  BY <1>2, UserTypes, TransferTypes, PlanTypes, DeleteTypes, RestoreTypes DEF Next, CycleStep
<1>. QED BY <1>1, <1>2

-------------------------------------------------------------------------------
(* What becomes of the directories that are accounted for, and of strays. *)

Kept == \A p \in Peers, d \in Dirs : Accounted(p, d) => Accounted(p, d)'

LEMMA UserKeeps ==
  ASSUME TypeOK, StraysThere, NEW p \in Peers, NEW d \in Dirs,
         UserMake(p, d) \/ UserChange(p, d) \/ UserStray(p, d) \/ UserRemove(p, d)
  PROVE  Kept /\ StraysThere'
<1>1. CASE UserMake(p, d)
  <2>1. {d} \cup Parents(d) \in SUBSET Dirs
    BY ParentsAbove
  <2>2. \A e \in Dirs : Renewed(p, {d} \cup Parents(d))[e] = NoDir
                          <=> e \notin {d} \cup Parents(d) /\ ~There(p, e)
    BY <2>1, RenewedTree
  <2>3. /\ disk' = [disk EXCEPT ![p] = Renewed(p, {d} \cup Parents(d))]
        /\ removed' = [removed EXCEPT ![p] = @ \ {d}] /\ strays' = strays
    BY <1>1 DEF UserMake
  <2>. QED BY <2>2, <2>3 DEF TypeOK, Kept, Accounted, There, StraysThere
<1>2. CASE UserChange(p, d) \/ UserStray(p, d)
  <2>1. There(p, d) /\ disk' = [disk EXCEPT ![p] = Renewed(p, {d})] /\ removed' = removed
    BY <1>2 DEF UserChange, UserStray
  <2>2. \A e \in Dirs : Renewed(p, {d})[e] = NoDir <=> ~There(p, e)
    BY <2>1, RenewedStays
  <2>3. \A q \in Peers, e \in Dirs : There(q, e)' <=> There(q, e)
    BY <2>1, <2>2 DEF TypeOK, There
  <2>4. StraysThere'
    BY <1>2, <2>1, <2>3 DEF StraysThere, UserChange, UserStray, TypeOK
  <2>. QED BY <2>1, <2>3, <2>4 DEF Kept, Accounted
<1>3. CASE UserRemove(p, d)
  <2>1. /\ There(p, d) /\ disk' = [disk EXCEPT ![p] = Without(p, d)]
        /\ strays' = [strays EXCEPT ![p] = @ \ ({d} \cup Below(d))]
        /\ removed' = [removed EXCEPT ![p] = @ \cup {e \in {d} \cup Below(d) : There(p, e)}]
    BY <1>3 DEF UserRemove
  <2>2. \A e \in Dirs : Without(p, d)[e] = NoDir <=> e \in {d} \cup Below(d) \/ ~There(p, e)
    BY <2>1, WithoutTree
  <2>. QED BY <2>1, <2>2 DEF TypeOK, Kept, Accounted, There, StraysThere
<1>. QED BY <1>1, <1>2, <1>3

\* A transfer, an application, leaves every directory where it is, or makes it.
LEMMA ApplyKeeps ==
  ASSUME TypeOK, StraysThere, NEW p \in Peers, NEW d \in Dirs, NEW manifest \in Manifests,
         Apply(p, d, manifest), strays' = strays
  PROVE  Kept /\ StraysThere' /\ There(p, d)'
         /\ \A q \in Peers, e \in Dirs : There(q, e) => There(q, e)'
<1>1. \A e \in Dirs : Applied(p, d, manifest)[e] = NoDir
                        <=> e # d /\ e \notin Missing(p, d) /\ ~There(p, e)
  BY AppliedTree
<1>2. /\ disk' = [disk EXCEPT ![p] = Applied(p, d, manifest)]
      /\ removed' = [removed EXCEPT ![p] = @ \ ({d} \cup Missing(p, d))]
  BY ApplyIsApplied
<1>3. There(p, d)' /\ \A q \in Peers, e \in Dirs : There(q, e) => There(q, e)'
  BY <1>1, <1>2 DEF TypeOK, There
<1>4. \A e \in Dirs : e \in Missing(p, d) => There(p, e)'
  BY <1>1, <1>2 DEF TypeOK, There
<1>. QED BY <1>2, <1>3, <1>4 DEF TypeOK, Kept, Accounted, StraysThere

LEMMA TransferKeeps ==
  ASSUME TypeOK, StraysThere, NEW p \in Peers, NEW d \in Dirs, TransferFile(p, d)
  PROVE  Kept /\ StraysThere' /\ \A q \in Peers, e \in Dirs : There(q, e)' <=> There(q, e)
<1>1. There(p, d) /\ disk' = [disk EXCEPT ![p] = Renewed(p, {d})]
  BY DEF TransferFile
<1>2. \A e \in Dirs : Renewed(p, {d})[e] = NoDir <=> ~There(p, e)
  BY <1>1, RenewedStays
<1>3. \A q \in Peers, e \in Dirs : There(q, e)' <=> There(q, e)
  BY <1>1, <1>2 DEF TypeOK, There
<1>. QED BY <1>3 DEF Kept, Accounted, StraysThere, TransferFile

\* What goes to the trash is one directory and what is below it.
LEMMA TrashTakes ==
  ASSUME TypeOK, StraysThere, NEW d \in Dirs, Trash(d)
  PROVE  /\ StraysThere'
         /\ \A q \in Peers, e \in Dirs :
              There(q, e) /\ (q = DeletedAt(d) => e \notin {d} \cup Below(d)) => There(q, e)'
         /\ \A q \in Peers, e \in Dirs :
              There(q, e) /\ ~There(q, e)' => q = DeletedAt(d) /\ e \in {d} \cup Below(d)
         /\ \A q \in Peers : strays[q] \ strays'[q] \subseteq {d} \cup Below(d)
<1>1. DeletedAt(d) \in Peers
  BY PeersOf
<1>2. /\ There(DeletedAt(d), d)
      /\ disk' = [disk EXCEPT ![DeletedAt(d)] = Without(DeletedAt(d), d)]
      /\ strays' = [strays EXCEPT ![DeletedAt(d)] = @ \ ({d} \cup Below(d))]
  BY DEF Trash
<1>3. \A e \in Dirs : Without(DeletedAt(d), d)[e] = NoDir
                        <=> e \in {d} \cup Below(d) \/ ~There(DeletedAt(d), e)
  BY <1>1, <1>2, WithoutTree
<1>. QED BY <1>1, <1>2, <1>3 DEF TypeOK, There, StraysThere

LEMMA StraysStep ==
  ASSUME TypeOK, Sending, StraysThere, [Next]_vars
  PROVE  StraysThere'
<1>1. CASE UNCHANGED vars
  BY <1>1 DEF vars, StraysThere, There
<1>2. ASSUME NEW p \in Peers, NEW d \in Dirs,
             UserMake(p, d) \/ UserChange(p, d) \/ UserStray(p, d) \/ UserRemove(p, d)
      PROVE  StraysThere'
  BY <1>2, UserKeeps
<1>3. ASSUME NEW p \in Peers, NEW d \in Dirs, TransferFile(p, d) PROVE StraysThere'
  BY <1>3, TransferKeeps
<1>4. CASE Scan \/ List \/ Done \/ Abort
  BY <1>4 DEF Scan, List, Done, Abort, StraysThere, There
<1>5. ASSUME NEW d \in Dirs, InspectEmpty(d) \/ Retain(d) \/ DeleteMissing(d) PROVE StraysThere'
  BY <1>5 DEF InspectEmpty, Retain, DeleteMissing, StraysThere, There
<1>6. ASSUME NEW d \in Dirs, Move(d) \/ MoveUncommitted(d) PROVE StraysThere'
  BY <1>6, TrashTakes DEF Move, MoveUncommitted
<1>7. ASSUME NEW d \in Dirs, Restore(d) \/ Send(d) PROVE StraysThere'
  <2>1. Restored(d) \in Manifests
    BY <1>7, AppliedKnown DEF Restore, Send
  <2>. QED BY <1>7, <2>1, ApplyKeeps, PeersOf DEF Restore, Send
<1>8. ASSUME NEW d \in Dirs, ApplyUncommitted(d) PROVE StraysThere'
  <2>1. Restored(d) \in Manifests /\ New(d) \in Manifests
    BY <1>8, AppliedKnown, NewIsManifest DEF ApplyUncommitted
  <2>2. PICK p \in Peers, manifest \in Manifests : Apply(p, d, manifest)
    BY <1>8, <2>1, PeersOf DEF ApplyUncommitted
  <2>. QED BY <1>8, <2>2, ApplyKeeps DEF ApplyUncommitted
<1>. QED BY <1>1, <1>2, <1>3, <1>4, <1>5, <1>6, <1>7, <1>8 DEF Next, CycleStep

-------------------------------------------------------------------------------
(* The steps of a cycle. *)

LEMMA SamePlan ==
  ASSUME cycle'.previous = cycle.previous, cycle'.local = cycle.local,
         cycle'.remote = cycle.remote
  PROVE  Acted' = Acted /\ Doomed' = Doomed
         /\ \A d \in Dirs : Restored(d)' = Restored(d)
BY DEF Acted, Doomed, Restored, Planned

\* What the parts of the invariant about the cycle say together.
Cycling == Snapshots /\ Moving /\ Sending /\ Listing /\ Progress /\ Settled

\* A step that leaves the cycle and the indexes alone.
LEMMA QuietStep ==
  ASSUME Cycling, Kept, UNCHANGED <<cycle, index, settled>>
  PROVE  Cycling'
<1>1. Acted' = Acted /\ Doomed' = Doomed /\ \A d \in Dirs : Restored(d)' = Restored(d)
  BY SamePlan
<1>2. Snapshots' /\ Moving'
  BY DEF Cycling, Snapshots, Moving, Rooted
<1>3. Sending' /\ Listing'
  BY <1>1, PeersOf DEF Cycling, Sending, Listing, Kept
<1>4. Progress'
  <2>1. PlanKept => PlanKept'
    BY <1>1 DEF PlanKept
  <2>2. \A d \in Dirs : ProgressWith(d) => ProgressWith(d)'
    BY <1>1 DEF ProgressWith, Kept
  <2>. QED BY <2>1, <2>2 DEF Cycling, Progress
<1>5. Settled'
  BY PeersOf DEF Cycling, Settled, Kept
<1>. QED BY <1>2, <1>3, <1>4, <1>5 DEF Cycling

LEMMA FailedStep ==
  ASSUME CycleFails
  PROVE  Cycling'
BY DEF CycleFails, IdleCycle, Cycling, Snapshots, Rooted, NoDirs, Moving, Sending, Listing,
       Progress, Settled
LEMMA ScanStep ==
  ASSUME TypeOK, Cycling, Scan
  PROVE  Cycling'
<1>1. /\ cycle'.step = "list" /\ cycle'.previous = index[Initiator]
      /\ cycle'.local = disk[Initiator] /\ cycle'.remote = NoDirs
      /\ cycle'.gone[Initiator] = removed[Initiator]
  BY PeersOf DEF Scan, Remembered, IdleCycle
<1>2. /\ cycle.step = "idle" /\ index' = [index EXCEPT ![Initiator] = disk[Initiator]]
      /\ UNCHANGED <<disk, removed, settled>>
  BY DEF Scan
<1>3. Snapshots'
  BY <1>1, Trees, PeersOf DEF Snapshots, Rooted, NoDirs
<1>4. Moving' /\ Sending' /\ Progress'
  BY <1>1 DEF Moving, Sending, Progress
<1>5. Listing'
  BY <1>1, <1>2, PeersOf DEF Listing, Accounted, There, TypeOK
<1>6. Settled'
  <2>. SUFFICES ASSUME settled, NEW d \in Dirs, index[Initiator][d] # NoDir
                PROVE  (cycle'.local[d] # NoDir \/ d \in cycle'.gone[Initiator])
                         /\ Accounted(Responder, d)'
    BY <1>1, <1>2 DEF Settled
  <2>1. Accounted(Initiator, d) /\ Accounted(Responder, d)
    BY <1>2, PeersOf DEF Cycling, Settled
  <2>. QED BY <1>1, <1>2, <2>1 DEF Accounted, There
<1>. QED BY <1>3, <1>4, <1>5, <1>6 DEF Cycling

LEMMA ListStep ==
  ASSUME TypeOK, Cycling, List
  PROVE  Cycling'
<1>1. /\ cycle'.step = "files" /\ cycle'.previous = cycle.previous
      /\ cycle'.local = cycle.local /\ cycle'.remote = disk[Responder]
      /\ cycle'.gone[Initiator] = cycle.gone[Initiator]
      /\ cycle'.gone[Responder] = removed[Responder]
      /\ cycle.step = "list" /\ UNCHANGED <<disk, removed, settled>>
      /\ index'[Initiator] = index[Initiator]
  BY PeersOf, DirectoriesAssumption DEF List, TypeOK, Cycle
<1>2. cycle'.deletes = Doomed' /\ cycle'.restores = Acted' \ Doomed'
  BY <1>1 DEF List, Acted, Doomed, TypeOK, Cycle
<1>3. Snapshots'
  BY <1>1, Trees, PeersOf DEF Cycling, Snapshots, Rooted
<1>4. Moving' /\ Sending' /\ Listing'
  BY <1>1 DEF Moving, Sending, Listing
<1>5. Progress'
  <2>1. PlanKept'
    BY <1>2 DEF PlanKept
  <2>2. ASSUME NEW d \in Dirs PROVE ProgressWith(d)'
    <3>1. /\ d \in Acted' <=> cycle'.local[d] # cycle'.remote[d]
      <4>1. cycle'.local[d] # cycle'.remote[d]
              => cycle'.local[d] # cycle'.previous[d] \/ cycle'.remote[d] # cycle'.previous[d]
        OBVIOUS
      <4>. QED BY <4>1 DEF Acted, Actions
    <3>2. index[Initiator] = cycle.local /\ (cycle.local[d] # NoDir => Accounted(Initiator, d))
      BY <1>1 DEF Cycling, Listing
    <3>3. \A p \in Peers : Accounted(p, d) => Accounted(p, d)'
      BY <1>1 DEF Accounted, There
    <3>4. d \notin Acted' /\ cycle'.local[d] # NoDir => Accounted(Responder, d)'
      BY <1>1, <3>1 DEF Accounted, There
    <3>. QED BY <1>1, <1>2, <3>1, <3>2, <3>3, <3>4, PeersOf DEF ProgressWith
  <2>. QED BY <2>1, <2>2 DEF Progress
<1>6. Settled'
  <2>. SUFFICES ASSUME settled, NEW d \in Dirs, cycle.previous[d] # NoDir
                PROVE  /\ cycle'.local[d] # NoDir \/ d \in cycle'.gone[Initiator]
                       /\ cycle'.remote[d] # NoDir \/ d \in cycle'.gone[Responder]
    BY <1>1 DEF Settled
  <2>1. (cycle.local[d] # NoDir \/ d \in cycle.gone[Initiator]) /\ Accounted(Responder, d)
    BY <1>1 DEF Cycling, Settled
  <2>. QED BY <1>1, <2>1 DEF Accounted, There
<1>. QED BY <1>3, <1>4, <1>5, <1>6 DEF Cycling

\* What the carrying out of the plan does not touch.
PlannedFrom == <<cycle.previous, cycle.local, cycle.remote, cycle.gone>>

LEMMA PlanStays ==
  ASSUME Snapshots, Settled, UNCHANGED PlannedFrom, settled' = settled,
         cycle.step \notin {"idle", "list"}, cycle'.step \notin {"idle", "list"}
  PROVE  /\ Snapshots' /\ Settled' /\ Listing'
         /\ Acted' = Acted /\ Doomed' = Doomed /\ \A d \in Dirs : Restored(d)' = Restored(d)
<1>1. /\ cycle'.previous = cycle.previous /\ cycle'.local = cycle.local
      /\ cycle'.remote = cycle.remote /\ cycle'.gone = cycle.gone
  BY DEF PlannedFrom
<1>. QED BY <1>1, SamePlan DEF Snapshots, Rooted, Settled, Listing

LEMMA TransferStep ==
  ASSUME TypeOK, StraysThere, Cycling, NEW p \in Peers, NEW d \in Dirs, TransferFile(p, d)
  PROVE  Cycling'
<1>1. /\ cycle.step = "files" /\ cycle'.step = "files" /\ cycle'.deletes = cycle.deletes
      /\ cycle'.restores = cycle.restores \cup (({d} \cup Above[d]) \ cycle.deletes)
      /\ UNCHANGED PlannedFrom /\ UNCHANGED <<index, settled>>
      /\ cycle.local[d] # NoDir /\ cycle.remote[d] # NoDir
  BY DEF TransferFile, TypeOK, Cycle, PlannedFrom
<1>2. Kept
  BY TransferKeeps
<1>3. /\ Snapshots' /\ Settled' /\ Listing'
      /\ Acted' = Acted /\ Doomed' = Doomed
  BY <1>1, PlanStays DEF Cycling
<1>4. Moving' /\ Sending'
  BY <1>1 DEF Moving, Sending
<1>5. \A a \in {d} \cup Above[d] : a \in Dirs /\ cycle.local[a] # NoDir /\ cycle.remote[a] # NoDir
  BY <1>1, ParentsAbove DEF Cycling, Snapshots, Rooted
<1>6. Progress'
  <2>1. PlanKept /\ \A e \in Dirs : ProgressWith(e)
    BY <1>1 DEF Cycling, Progress
  <2>2. \A a \in {d} \cup Above[d] : a \notin Doomed
    BY <1>5, PlanOf
  <2>3. PlanKept'
    BY <1>1, <1>3, <2>1, <2>2 DEF PlanKept
  <2>4. ASSUME NEW e \in Dirs PROVE ProgressWith(e)'
    <3>1. cycle'.local = cycle.local
      BY <1>1 DEF PlannedFrom
    <3>2. cycle.local[e] = NoDir => (e \in cycle'.restores <=> e \in cycle.restores)
      BY <1>1, <1>5
    <3>. QED BY <1>1, <1>2, <1>3, <2>1, <3>1, <3>2 DEF ProgressWith, Kept
  <2>. QED BY <2>3, <2>4 DEF Progress
<1>. QED BY <1>3, <1>4, <1>6 DEF Cycling

LEMMA InspectStep ==
  ASSUME TypeOK, StraysThere, Cycling, NEW d \in Dirs, InspectEmpty(d)
  PROVE  Cycling'
<1>1. /\ cycle.step \in {"files", "apply"} /\ cycle'.step = "move" /\ cycle'.at = d
      /\ cycle'.deletes = cycle.deletes /\ cycle'.restores = cycle.restores
      /\ cycle'.kept = strays[DeletedAt(d)]
      /\ cycle'.seen = {e \in Dirs : There(DeletedAt(d), e)}
      /\ UNCHANGED PlannedFrom /\ UNCHANGED <<disk, index, removed, settled>>
      /\ d \in cycle.deletes /\ Empty(DeletedAt(d), d)
  BY DEF InspectEmpty, Working, Deepest, TypeOK, Cycle, PlannedFrom
<1>2. Kept
  BY <1>1 DEF Kept, Accounted, There
<1>3. /\ Snapshots' /\ Settled' /\ Listing' /\ Acted' = Acted /\ Doomed' = Doomed
  BY <1>1, PlanStays DEF Cycling
<1>4. Sending'
  BY <1>1 DEF Sending
<1>5. Moving'
  <2>1. DeletedAt(d) \in Peers
    BY PeersOf
  <2>2. Below(d) \subseteq Dirs
    BY DEF Below
  <2>. QED BY <1>1, <2>1, <2>2 DEF Moving, Empty, StraysThere
<1>6. Progress'
  <2>1. PlanKept /\ \A e \in Dirs : ProgressWith(e)
    BY <1>1 DEF Cycling, Progress
  <2>2. PlanKept'
    BY <1>1, <1>3, <2>1 DEF PlanKept
  <2>3. cycle'.local = cycle.local
    BY <1>1 DEF PlannedFrom
  <2>4. \A e \in Dirs : ProgressWith(e)'
    BY <1>1, <1>2, <1>3, <2>1, <2>3 DEF ProgressWith, Kept
  <2>. QED BY <2>2, <2>4 DEF Progress
<1>. QED BY <1>3, <1>4, <1>5, <1>6 DEF Cycling
\* A deletion is over: what went along with the directory the plan does not count on.
LEMMA DeletedStep ==
  ASSUME TypeOK, Cycling, NEW d \in Dirs, d \in cycle.deletes,
         cycle.step \in {"files", "apply", "move"}, cycle' = Deleted(d), settled' = settled,
         \A e \in Dirs : index'[Initiator][e] =
           IF e = d /\ DeletedAt(d) = Initiator THEN NoDir ELSE index[Initiator][e],
         \A p \in Peers, e \in Dirs \ ({d} \cup Below(d)) : Accounted(p, e) => Accounted(p, e)'
  PROVE  Cycling'
<1>1. /\ cycle'.step = "apply" /\ cycle'.deletes = cycle.deletes \ {d}
      /\ cycle'.restores = cycle.restores /\ UNCHANGED PlannedFrom
  BY DEF Deleted, TypeOK, Cycle, PlannedFrom
<1>2. /\ Snapshots' /\ Settled' /\ Listing' /\ Acted' = Acted /\ Doomed' = Doomed
  BY <1>1, PlanStays DEF Cycling
<1>3. Moving' /\ Sending'
  BY <1>1 DEF Moving, Sending
<1>4. PlanKept /\ \A e \in Dirs : ProgressWith(e)
  BY DEF Cycling, Progress
<1>5. PlanKept'
  BY <1>1, <1>2, <1>4 DEF PlanKept
<1>6. d \in Doomed /\ Acted \ Doomed \subseteq cycle.restores /\ Doomed \subseteq Acted
  BY <1>4 DEF PlanKept, Doomed
<1>7. ASSUME NEW e \in Dirs PROVE ProgressWith(e)'
  <2>1. cycle'.local = cycle.local
    BY <1>1 DEF PlannedFrom
  <2>2. CASE e \in {d} \cup Below(d)
    <3>1. e \notin Acted => cycle.local[e] = NoDir
      <4>1. cycle.local[d] = NoDir \/ cycle.remote[d] = NoDir
        BY <1>6, PlanOf
      <4>2. cycle.local[e] = NoDir \/ cycle.remote[e] = NoDir
        BY <2>2, <4>1 DEF Cycling, Snapshots, Rooted, Below
      <4>. QED BY <4>2, PlanOf
    <3>2. e = d => index'[Initiator][e] = NoDir
      <4>1. DeletedAt(d) = Initiator \/ cycle.local[d] = NoDir
        BY <1>6, PlanOf
      <4>. QED BY <1>4, <1>6, <4>1 DEF ProgressWith
    <3>. QED BY <1>1, <1>2, <1>4, <1>6, <2>1, <3>1, <3>2 DEF ProgressWith
  <2>3. CASE e \notin {d} \cup Below(d)
    BY <1>1, <1>2, <1>4, <2>1, <2>3 DEF ProgressWith
  <2>. QED BY <2>2, <2>3
<1>8. Progress'
  BY <1>5, <1>7 DEF Progress
<1>. QED BY <1>2, <1>3, <1>8 DEF Cycling

LEMMA RetainStep ==
  ASSUME TypeOK, Cycling, NEW d \in Dirs, Retain(d)
  PROVE  Cycling'
<1>1. /\ d \in cycle.deletes /\ cycle.step \in {"files", "apply"}
      /\ cycle' = Deleted(d) /\ UNCHANGED <<disk, removed, settled>>
  BY DEF Retain, Working, Deepest
<1>2. \A e \in Dirs : index'[Initiator][e] =
        IF e = d /\ DeletedAt(d) = Initiator THEN NoDir ELSE index[Initiator][e]
  BY PeersOf DEF Retain, TypeOK, Tree
<1>3. \A p \in Peers, e \in Dirs : Accounted(p, e) => Accounted(p, e)'
  BY <1>1 DEF Accounted, There
<1>. QED BY <1>1, <1>2, <1>3, DeletedStep

LEMMA MoveStep ==
  ASSUME TypeOK, StraysThere, Cycling, NEW d \in Dirs, Move(d)
  PROVE  Cycling'
<1>1. /\ d \in cycle.deletes /\ cycle.step = "move" /\ Trash(d)
      /\ cycle' = Deleted(d) /\ UNCHANGED <<removed, settled>>
  BY DEF Move, Cycling, Moving
<1>2. \A e \in Dirs : index'[Initiator][e] =
        IF e = d /\ DeletedAt(d) = Initiator THEN NoDir ELSE index[Initiator][e]
  BY PeersOf DEF Move, TypeOK, Tree
<1>3. \A p \in Peers, e \in Dirs \ ({d} \cup Below(d)) : Accounted(p, e) => Accounted(p, e)'
  BY <1>1, TrashTakes DEF Accounted
<1>. QED BY <1>1, <1>2, <1>3, DeletedStep

LEMMA RestoreStep ==
  ASSUME TypeOK, StraysThere, Cycling, NEW d \in Dirs, Restore(d)
  PROVE  Cycling'
<1>1. /\ cycle.step \in {"files", "apply"} /\ cycle'.step = "send" /\ cycle'.at = d
      /\ cycle'.deletes = cycle.deletes /\ cycle'.restores = cycle.restores
      /\ cycle.deletes = {} /\ d \in cycle.restores
      /\ UNCHANGED PlannedFrom /\ UNCHANGED <<strays, settled>>
      /\ Apply(Initiator, d, Restored(d))
      /\ index' = [index EXCEPT ![Initiator][d] = Restored(d)]
  BY DEF Restore, Working, Deepest, ToRestore, TypeOK, Cycle, PlannedFrom
<1>2. Restored(d) \in Manifests
  BY AppliedKnown DEF Restore, Cycling
<1>3. Kept /\ There(Initiator, d)'
  BY <1>1, <1>2, ApplyKeeps, PeersOf
<1>4. /\ Snapshots' /\ Settled' /\ Listing' /\ Acted' = Acted /\ Doomed' = Doomed
      /\ Restored(d)' = Restored(d)
  BY <1>1, PlanStays DEF Cycling
<1>5. Moving'
  BY <1>1 DEF Moving
<1>6. Sending'
  BY <1>1, <1>2, <1>3, <1>4, DirectoriesAssumption DEF Sending, Accounted
<1>7. PlanKept /\ \A e \in Dirs : ProgressWith(e)
  BY <1>1 DEF Cycling, Progress
<1>8. PlanKept'
  BY <1>1, <1>4, <1>7 DEF PlanKept
<1>9. ASSUME NEW e \in Dirs PROVE ProgressWith(e)'
  <2>1. cycle'.local = cycle.local
    BY <1>1 DEF PlannedFrom
  <2>2. d \notin Doomed /\ (d \notin Acted => cycle.local[d] # NoDir)
    BY <1>1, <1>7 DEF PlanKept, ProgressWith
  <2>3. e # d => index'[Initiator][e] = index[Initiator][e]
    BY <1>1, PeersOf DEF TypeOK, Tree
  <2>4. CASE e = d
    BY <1>1, <1>3, <1>4, <1>7, <2>1, <2>2, <2>4 DEF ProgressWith, Kept
  <2>5. CASE e # d
    BY <1>1, <1>3, <1>4, <1>7, <2>1, <2>3, <2>5 DEF ProgressWith, Kept
  <2>. QED BY <2>4, <2>5
<1>. QED BY <1>4, <1>5, <1>6, <1>8, <1>9 DEF Cycling, Progress

LEMMA SendStep ==
  ASSUME TypeOK, StraysThere, Cycling, NEW d \in Dirs, Send(d)
  PROVE  Cycling'
<1>1. /\ cycle.step = "send" /\ cycle.at = d /\ cycle'.step = "apply"
      /\ cycle'.deletes = cycle.deletes /\ cycle'.restores = cycle.restores \ {d}
      /\ UNCHANGED PlannedFrom /\ UNCHANGED <<strays, settled>>
      /\ Apply(Responder, d, Restored(d))
      /\ index' = [index EXCEPT ![Responder][d] = Restored(d)]
  BY DEF Send, Sent, TypeOK, Cycle, PlannedFrom
<1>2. Restored(d) \in Manifests
  BY AppliedKnown DEF Send, Cycling
<1>3. Kept /\ There(Responder, d)' /\ Accounted(Initiator, d) /\ cycle.deletes = {}
  BY <1>1, <1>2, ApplyKeeps, PeersOf DEF Cycling, Sending
<1>4. /\ Snapshots' /\ Settled' /\ Listing' /\ Acted' = Acted /\ Doomed' = Doomed
  BY <1>1, PlanStays DEF Cycling
<1>5. Moving' /\ Sending'
  BY <1>1 DEF Moving, Sending
<1>6. PlanKept /\ \A e \in Dirs : ProgressWith(e)
  BY <1>1 DEF Cycling, Progress
<1>7. PlanKept'
  BY <1>1, <1>3, <1>4, <1>6 DEF PlanKept
<1>8. \A p \in Peers : Accounted(p, d)'
  BY <1>3, PeersOf DEF Kept, Accounted
<1>9. ASSUME NEW e \in Dirs PROVE ProgressWith(e)'
  <2>1. cycle'.local = cycle.local
    BY <1>1 DEF PlannedFrom
  <2>2. index'[Initiator] = index[Initiator]
    BY <1>1, PeersOf, DirectoriesAssumption DEF TypeOK
  <2>3. e # d => (e \in cycle'.restores <=> e \in cycle.restores)
    BY <1>1
  <2>4. CASE e = d
    BY <1>1, <1>4, <1>6, <1>8, <2>1, <2>2, <2>4 DEF ProgressWith
  <2>5. CASE e # d
    BY <1>1, <1>3, <1>4, <1>6, <2>1, <2>2, <2>3, <2>5 DEF ProgressWith, Kept
  <2>. QED BY <2>4, <2>5
<1>. QED BY <1>4, <1>5, <1>7, <1>9 DEF Cycling, Progress

LEMMA DoneStep ==
  ASSUME TypeOK, Cycling, Done
  PROVE  Cycling'
<1>1. /\ cycle' = IdleCycle /\ settled' = TRUE /\ cycle.deletes = {} /\ ToRestore = {}
      /\ cycle.step \in {"files", "apply"} /\ UNCHANGED <<disk, index, removed>>
  BY DEF Done, Working
<1>2. cycle'.step = "idle" /\ cycle'.local = NoDirs /\ cycle'.remote = NoDirs
  BY <1>1 DEF IdleCycle
<1>3. Snapshots' /\ Moving' /\ Sending' /\ Listing' /\ Progress'
  BY <1>2 DEF Snapshots, Rooted, NoDirs, Moving, Sending, Listing, Progress
<1>4. ASSUME NEW d \in Dirs, index[Initiator][d] # NoDir
      PROVE  \A p \in Peers : Accounted(p, d)
  <2>1. ProgressWith(d)
    BY <1>1 DEF Cycling, Progress
  <2>2. d \in Acted \ Doomed => d \notin cycle.restores
    BY <1>1, PlanOf, DirectoriesAssumption DEF ToRestore
  <2>. QED BY <1>1, <1>4, <2>1, <2>2 DEF ProgressWith
<1>5. Settled'
  BY <1>1, <1>2, <1>4 DEF Settled, Accounted, There
<1>. QED BY <1>3, <1>5 DEF Cycling

LEMMA CyclingStep ==
  ASSUME TypeOK, StraysThere, Cycling, [Next]_vars
  PROVE  Cycling'
<1>1. CASE UNCHANGED vars
  <2>1. Kept /\ UNCHANGED <<cycle, index, settled>>
    BY <1>1 DEF vars, Kept, Accounted, There
  <2>. QED BY <2>1, QuietStep
<1>2. ASSUME NEW p \in Peers, NEW d \in Dirs,
             UserMake(p, d) \/ UserChange(p, d) \/ UserStray(p, d) \/ UserRemove(p, d)
      PROVE  Cycling'
  <2>1. Kept
    BY <1>2, UserKeeps
  <2>2. UNCHANGED <<cycle, index, settled>>
    BY <1>2 DEF UserMake, UserChange, UserStray, UserRemove
  <2>. QED BY <2>1, <2>2, QuietStep
<1>3. ASSUME NEW p \in Peers, NEW d \in Dirs, TransferFile(p, d) PROVE Cycling'
  BY <1>3, TransferStep
<1>4. CASE Scan \/ List \/ Done \/ Abort
  BY <1>4, ScanStep, ListStep, DoneStep, FailedStep DEF Abort
<1>5. ASSUME NEW d \in Dirs,
             InspectEmpty(d) \/ Retain(d) \/ Move(d) \/ DeleteMissing(d) \/ Restore(d) \/ Send(d)
      PROVE  Cycling'
  BY <1>5, InspectStep, RetainStep, MoveStep, FailedStep, RestoreStep, SendStep
     DEF DeleteMissing
<1>6. ASSUME NEW d \in Dirs, MoveUncommitted(d) \/ ApplyUncommitted(d) PROVE Cycling'
  BY <1>6, FailedStep DEF MoveUncommitted, ApplyUncommitted
<1>. QED BY <1>1, <1>2, <1>3, <1>4, <1>5, <1>6 DEF Next, CycleStep

-------------------------------------------------------------------------------
(* Theorems. *)

LEMMA InvOfInit == Init => DirectoriesInv
<1>. SUFFICES ASSUME Init PROVE DirectoriesInv
  OBVIOUS
<1>1. TypeOK
  BY IdleIsCycle, DirectoriesAssumption DEF Init, TypeOK, Tree, NoDirs
<1>2. cycle.step = "idle" /\ cycle.local = NoDirs /\ cycle.remote = NoDirs
      /\ index[Initiator] = NoDirs
  BY PeersOf DEF Init, IdleCycle
<1>3. Snapshots /\ StraysThere /\ Moving /\ Sending /\ Listing /\ Progress
  BY <1>2 DEF Init, Snapshots, Rooted, NoDirs, StraysThere, Moving, Sending, Listing, Progress
<1>4. Settled
  BY <1>2 DEF Settled, NoDirs
<1>. QED BY <1>1, <1>3, <1>4 DEF DirectoriesInv

LEMMA InvStep == DirectoriesInv /\ [Next]_vars => DirectoriesInv'
BY TypeStep, StraysStep, CyclingStep DEF DirectoriesInv, Cycling

LEMMA DirectoriesInvariant == Spec => []DirectoriesInv
BY InvOfInit, InvStep, PTL DEF Spec

\* Every variable stays in its set, and a directory stays inside directories that
\* are there, whatever users, cycles and faults do to the two trees.
THEOREM TypeCorrect == Spec => []TypeOK
<1>1. DirectoriesInv => TypeOK
  BY DEF DirectoriesInv
<1>. QED BY <1>1, DirectoriesInvariant, PTL

\* Only the two steps that go to the trash take a directory away.
LEMMA TakenAway ==
  ASSUME DirectoriesInv, [Next]_vars, edits' = edits, NEW p \in Peers, NEW d \in Dirs,
         (There(p, d) /\ ~There(p, d)') \/ d \in strays[p] \ strays'[p]
  PROVE  cycle.step = "move" /\ \E e \in Dirs : cycle.at = e /\ Trash(e)
<1>1. TypeOK /\ StraysThere /\ Sending
  BY DEF DirectoriesInv
<1>2. CASE UNCHANGED vars
  BY <1>2 DEF vars, There
<1>3. ASSUME NEW q \in Peers, NEW e \in Dirs,
             UserMake(q, e) \/ UserChange(q, e) \/ UserStray(q, e) \/ UserRemove(q, e)
      PROVE  FALSE
  <2>1. edits' = edits + 1 /\ edits \in Nat
    BY <1>1, <1>3, DirectoriesAssumption
       DEF UserMake, UserChange, UserStray, UserRemove, TypeOK
  <2>. QED BY <2>1
<1>4. ASSUME NEW q \in Peers, NEW e \in Dirs, TransferFile(q, e) PROVE FALSE
  BY <1>1, <1>4, TransferKeeps DEF TransferFile
<1>5. CASE Scan \/ List \/ Done \/ Abort
  BY <1>5 DEF Scan, List, Done, Abort, There
<1>6. ASSUME NEW e \in Dirs, InspectEmpty(e) \/ Retain(e) \/ DeleteMissing(e) PROVE FALSE
  BY <1>6 DEF InspectEmpty, Retain, DeleteMissing, There
<1>7. ASSUME NEW e \in Dirs, Move(e) \/ MoveUncommitted(e)
      PROVE  cycle.step = "move" /\ cycle.at = e /\ Trash(e)
  BY <1>7 DEF Move, MoveUncommitted
<1>8. ASSUME NEW e \in Dirs, Restore(e) \/ Send(e) PROVE FALSE
  <2>1. Restored(e) \in Manifests
    BY <1>1, <1>8, AppliedKnown DEF Restore, Send
  <2>. QED BY <1>1, <1>8, <2>1, ApplyKeeps, PeersOf DEF Restore, Send
<1>9. ASSUME NEW e \in Dirs, ApplyUncommitted(e) PROVE FALSE
  <2>1. Restored(e) \in Manifests /\ New(e) \in Manifests
    BY <1>1, <1>9, AppliedKnown, NewIsManifest DEF ApplyUncommitted
  <2>2. PICK q \in Peers, manifest \in Manifests : Apply(q, e, manifest)
    BY <1>9, <2>1, PeersOf DEF ApplyUncommitted
  <2>. QED BY <1>1, <1>9, <2>2, ApplyKeeps DEF ApplyUncommitted
<1>. QED BY <1>2, <1>3, <1>4, <1>5, <1>6, <1>7, <1>8, <1>9 DEF Next, CycleStep

\* A cycle takes an out-of-set child away only if it was put there after
\* DeleteDirectory had found the directory empty.
THEOREM StraysAreRetained == Spec => StraysRetained
<1>. DEFINE Step == \A p \in Peers, d \in Dirs :
       edits' = edits /\ d \in strays[p] \ strays'[p] => cycle.step = "move" /\ d \notin cycle.kept
<1>1. ASSUME DirectoriesInv, [Next]_vars PROVE Step
  <2>. SUFFICES ASSUME NEW p \in Peers, NEW d \in Dirs,
                       edits' = edits, d \in strays[p] \ strays'[p]
                PROVE  cycle.step = "move" /\ d \notin cycle.kept
    OBVIOUS
  <2>1. PICK e \in Dirs : cycle.step = "move" /\ cycle.at = e /\ Trash(e)
    BY <1>1, TakenAway
  <2>2. d \in {e} \cup Below(e)
    BY <1>1, <2>1, TrashTakes DEF DirectoriesInv
  <2>. QED BY <1>1, <2>1, <2>2 DEF DirectoriesInv, Moving
<1>2. DirectoriesInv /\ [Next]_vars => [Step]_vars
  BY <1>1
<1>. QED BY <1>2, DirectoriesInvariant, PTL DEF Spec, StraysRetained

\* After a cycle that did all it had planned, the next one deletes a directory on
\* one side only if the other side's user had removed it there when its manifests
\* were read.
THEOREM OnlyRemovedAreDeleted == Spec => OnlyRemovedDeleted
<1>. DEFINE Step == settled => \A p \in Peers, d \in Dirs :
                      Deletion(p, d) => d \in cycle.gone[Other(p)]
<1>1. ASSUME DirectoriesInv, [Next]_vars PROVE Step
  <2>. SUFFICES ASSUME settled, NEW p \in Peers, NEW d \in Dirs, Deletion(p, d)
                PROVE  d \in cycle.gone[Other(p)]
    OBVIOUS
  <2>1. PICK e \in Dirs : cycle.step = "move" /\ cycle.at = e /\ Trash(e)
    BY <1>1, TakenAway DEF Deletion, There
  <2>2. p = DeletedAt(e) /\ d \in {e} \cup Below(e)
    BY <1>1, <2>1, TrashTakes DEF DirectoriesInv, Deletion, There
  <2>3. d = e /\ e \in Doomed
    <3>1. cycle.at \in cycle.deletes /\ cycle.seen \cap Below(cycle.at) = {}
      BY <1>1, <2>1 DEF DirectoriesInv, Moving
    <3>2. cycle.deletes \subseteq Doomed
      BY <1>1, <2>1 DEF DirectoriesInv, Progress, PlanKept
    <3>. QED BY <2>1, <2>2, <3>1, <3>2 DEF Deletion
  <2>4. \/ cycle.local[d] = NoDir /\ cycle.previous[d] # NoDir /\ Other(p) = Initiator
        \/ cycle.remote[d] = NoDir /\ cycle.previous[d] # NoDir /\ Other(p) = Responder
    BY <1>1, <2>2, <2>3, PlanOf, DirectoriesAssumption DEF DirectoriesInv, Other
  <2>. QED BY <1>1, <2>1, <2>4 DEF DirectoriesInv, Settled
<1>2. DirectoriesInv /\ [Next]_vars => [Step]_vars
  BY <1>1
<1>. QED BY <1>2, DirectoriesInvariant, PTL DEF Spec, OnlyRemovedDeleted
==============================================================================
