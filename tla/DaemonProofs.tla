----------------------------- MODULE DaemonProofs -----------------------------
(***************************************************************************)
(* Theorems about Daemon for any folders, peers, timers, changes and       *)
(* faults.  The backoff after a cycle is folded over its folders, so that  *)
(* its type takes an induction over them.  It is on sets of numbers rather *)
(* than on predicates, and the provers can use it so.                      *)
(***************************************************************************)
EXTENDS Daemon, FiniteSetTheorems, TLAPS

-------------------------------------------------------------------------------
(* Induction. *)

LEMMA LessIsWellFounded ==
  \E R : IsWellFoundedOn(R, Nat) /\ \A x, y \in Nat : <<y, x>> \in R <=> y < x
<1>. DEFINE R == OpToRel(<, Nat)
<1>1. IsWellFoundedOn(R, Nat)
  BY NatLessThanWellFounded, Zenon
<1>2. \A x, y \in Nat : <<y, x>> \in R <=> y < x
  BY DEF OpToRel
<1>. HIDE DEF R
<1>. QED BY <1>1, <1>2, Zenon

LEMMA LeastNumber ==
  ASSUME NEW S, S \subseteq Nat, S # {}
  PROVE  \E x \in S : \A y \in S : x <= y
<1>1. PICK R : IsWellFoundedOn(R, Nat) /\ \A x, y \in Nat : <<y, x>> \in R <=> y < x
  BY LessIsWellFounded, Zenon
<1>2. PICK x \in S : \A y \in S : <<y, x>> \notin R
  BY <1>1, WFMin, Zenon
<1>3. ASSUME NEW y \in S PROVE x <= y
  <2>1. ~(y < x)
    BY <1>1, <1>2
  <2>. QED BY <2>1
<1>. QED BY <1>3

LEMMA SetInduction ==
  ASSUME NEW S, 0 \in S, \A n \in Nat : n \in S => n + 1 \in S
  PROVE  \A n \in Nat : n \in S
<1>. SUFFICES ASSUME Nat \ S # {} PROVE FALSE
  OBVIOUS
<1>1. PICK x \in Nat \ S : \A y \in Nat \ S : x <= y
  BY LeastNumber
<1>2. x - 1 \in Nat /\ x - 1 \in S
  BY <1>1
<1>. QED BY <1>1, <1>2

\* What a step does with the last element of a set of numbers.
LEMMA LastOf ==
  ASSUME NEW n \in Nat, NEW s \in SUBSET (1 .. n + 1)
  PROVE  /\ n + 1 \in s => Max(s) = n + 1 /\ s \ {n + 1} \in SUBSET (1 .. n)
         /\ n + 1 \notin s => s \in SUBSET (1 .. n)
<1>1. ASSUME n + 1 \in s PROVE Max(s) = n + 1
  <2>1. \A y \in s : n + 1 >= y
    OBVIOUS
  <2>2. \A x \in s : (\A y \in s : x >= y) => x = n + 1
    BY <1>1
  <2>. QED BY <1>1, <2>1, <2>2 DEF Max
<1>. QED BY <1>1

LEMMA LastIsIn ==
  ASSUME NEW N \in Nat, NEW s \in SUBSET (1 .. N), s # {}
  PROVE  Max(s) \in s
<1>. DEFINE S == {n \in Nat : \A t \in SUBSET (1 .. n) : t # {} => Max(t) \in t}
<1>1. 0 \in S
  <2>1. 1 .. 0 = {}
    OBVIOUS
  <2>. QED BY <2>1
<1>2. ASSUME NEW n \in Nat, n \in S PROVE n + 1 \in S
  <2>. SUFFICES ASSUME NEW t \in SUBSET (1 .. n + 1), t # {} PROVE Max(t) \in t
    OBVIOUS
  <2>1. CASE n + 1 \in t
    BY <2>1, LastOf
  <2>2. CASE n + 1 \notin t
    BY <1>2, <2>2, LastOf
  <2>. QED BY <2>1, <2>2
<1>. HIDE DEF S
<1>3. N \in S
  BY <1>1, <1>2, SetInduction
<1>. QED BY <1>3 DEF S

\* g folds F from base over the sets of numbers to n, each by its last element.
FoldsTo(g, n, D, base, F) ==
  /\ g \in [SUBSET (1 .. n) -> D]
  /\ \A s \in SUBSET (1 .. n) : g[s] = IF s = {} THEN base ELSE F[Max(s)][g[s \ {Max(s)}]]

LEMMA FoldStep ==
  ASSUME NEW D, NEW base \in D, NEW N \in Nat, NEW F \in [1 .. N -> [D -> D]],
         NEW n \in Nat, n + 1 <= N, NEW g, FoldsTo(g, n, D, base, F)
  PROVE  \E h : FoldsTo(h, n + 1, D, base, F)
<1>. DEFINE h == [s \in SUBSET (1 .. n + 1) |->
                    IF n + 1 \in s THEN F[n + 1][g[s \ {n + 1}]] ELSE g[s]]
<1>1. g \in [SUBSET (1 .. n) -> D] /\ F[n + 1] \in [D -> D]
  BY DEF FoldsTo
<1>2. ASSUME NEW s \in SUBSET (1 .. n + 1)
      PROVE  h[s] \in D /\ h[s] = IF s = {} THEN base ELSE F[Max(s)][h[s \ {Max(s)}]]
  <2>0. \A t \in SUBSET (1 .. n + 1) : n + 1 \notin t => h[t] = g[t]
    OBVIOUS
  <2>1. CASE n + 1 \in s
    <3>1. Max(s) = n + 1 /\ s \ {n + 1} \in SUBSET (1 .. n)
      BY <2>1, LastOf
    <3>2. h[s \ {n + 1}] = g[s \ {n + 1}]
      BY <2>0
    <3>3. h[s] = F[n + 1][g[s \ {n + 1}]]
      BY <2>1
    <3>4. h[s] \in D
      BY <1>1, <3>1, <3>3
    <3>. QED BY <2>1, <3>1, <3>2, <3>3, <3>4
  <2>2. CASE n + 1 \notin s
    <3>1. s \in SUBSET (1 .. n)
      BY <2>2, LastOf
    <3>2. g[s] \in D /\ g[s] = IF s = {} THEN base ELSE F[Max(s)][g[s \ {Max(s)}]]
      BY <3>1 DEF FoldsTo
    <3>3. h[s] = g[s] /\ h[s \ {Max(s)}] = g[s \ {Max(s)}]
      <4>. HIDE DEF h
      <4>. QED BY <2>0, <2>2
    <3>. QED BY <3>2, <3>3
  <2>. QED BY <2>1, <2>2
<1>3. h \in [SUBSET (1 .. n + 1) -> D]
  BY <1>2
<1>. HIDE DEF h
<1>4. FoldsTo(h, n + 1, D, base, F)
  BY <1>2, <1>3 DEF FoldsTo
<1>. QED BY <1>4

LEMMA FoldExists ==
  ASSUME NEW D, NEW base \in D, NEW N \in Nat, NEW F \in [1 .. N -> [D -> D]]
  PROVE  \E g : FoldsTo(g, N, D, base, F)
<1>. DEFINE S == {n \in Nat : n <= N => \E g : FoldsTo(g, n, D, base, F)}
<1>1. 0 \in S
  <2>. DEFINE g == [s \in SUBSET (1 .. 0) |-> base]
  <2>1. 1 .. 0 = {}
    OBVIOUS
  <2>2. FoldsTo(g, 0, D, base, F)
    BY <2>1 DEF FoldsTo
  <2>. HIDE DEF g
  <2>. QED BY <2>2
<1>2. ASSUME NEW n \in Nat, n \in S PROVE n + 1 \in S
  <2>. SUFFICES ASSUME n + 1 <= N PROVE \E h : FoldsTo(h, n + 1, D, base, F)
    OBVIOUS
  <2>1. PICK g : FoldsTo(g, n, D, base, F)
    BY <1>2
  <2>. QED BY <2>1, FoldStep
<1>. HIDE DEF S
<1>3. N \in S
  BY <1>1, <1>2, SetInduction
<1>. QED BY <1>3 DEF S

\* Whatever folds over these sets stays in D, if each step of it does.
LEMMA FoldStaysIn ==
  ASSUME NEW D, NEW base \in D, NEW N \in Nat, NEW F \in [1 .. N -> [D -> D]], NEW g,
         \A s \in SUBSET (1 .. N) :
           /\ s = {} => g[s] = base
           /\ s # {} /\ g[s \ {Max(s)}] \in D => g[s] = F[Max(s)][g[s \ {Max(s)}]]
  PROVE  g[1 .. N] \in D
<1>. DEFINE S == {n \in Nat : n <= N => \A s \in SUBSET (1 .. n) : g[s] \in D}
<1>1. 0 \in S
  <2>1. 1 .. 0 = {}
    OBVIOUS
  <2>2. {} \in SUBSET (1 .. N)
    OBVIOUS
  <2>3. g[{}] = base
    BY <2>2
  <2>. QED BY <2>1, <2>3
<1>2. ASSUME NEW n \in Nat, n \in S PROVE n + 1 \in S
  <2>. SUFFICES ASSUME n + 1 <= N, NEW s \in SUBSET (1 .. n + 1) PROVE g[s] \in D
    OBVIOUS
  <2>1. \A t \in SUBSET (1 .. n) : g[t] \in D
    BY <1>2
  <2>2. CASE n + 1 \in s
    <3>1. Max(s) = n + 1 /\ s \ {n + 1} \in SUBSET (1 .. n)
      BY <2>2, LastOf
    <3>2. g[s \ {n + 1}] \in D
      BY <2>1, <3>1
    <3>3. s \in SUBSET (1 .. N) /\ s # {}
      BY <2>2
    <3>4. g[s] = F[n + 1][g[s \ {n + 1}]]
      BY <3>1, <3>2, <3>3
    <3>5. F[n + 1] \in [D -> D]
      OBVIOUS
    <3>. QED BY <3>2, <3>4, <3>5
  <2>3. CASE n + 1 \notin s
    BY <2>1, <2>3, LastOf
  <2>. QED BY <2>2, <2>3
<1>. HIDE DEF S
<1>3. N \in S
  BY <1>1, <1>2, SetInduction
<1>. QED BY <1>3 DEF S

-------------------------------------------------------------------------------
(* The delays after a cycle. *)

DelaySet == [Peers -> 0 .. BackoffMax]

\* What one folder's end makes of the delays.
Outcome(tried, done, silent, delays, f) ==
  CASE f \notin tried \ silent -> delays
    [] f \in done              -> [delays EXCEPT ![PeerOf[f]] = 0]
    [] OTHER                   -> [delays EXCEPT ![PeerOf[f]] = Backoff(@)]

LEMMA OutcomeTyped ==
  ASSUME NEW tried, NEW done, NEW silent, NEW delays \in DelaySet, NEW f \in FolderSet
  PROVE  Outcome(tried, done, silent, delays, f) \in DelaySet
<1>1. PeerOf[f] \in Peers /\ BackoffMax \in Nat /\ BackoffStart \in 0 .. BackoffMax
  BY DaemonAssumption
<1>2. \A d \in 0 .. BackoffMax : Backoff(d) \in 0 .. BackoffMax
  BY <1>1 DEF Backoff
<1>3. [delays EXCEPT ![PeerOf[f]] = 0] \in DelaySet
  BY <1>1 DEF DelaySet
<1>4. [delays EXCEPT ![PeerOf[f]] = Backoff(@)] \in DelaySet
  BY <1>1, <1>2 DEF DelaySet
<1>. QED BY <1>3, <1>4 DEF Outcome

LEMMA FoldersAre ==
  /\ Len(Folders) \in Nat /\ DOMAIN Folders = 1 .. Len(Folders)
  /\ \A i \in 1 .. Len(Folders) : Folders[i] \in FolderSet
BY DaemonAssumption

DelaysEquation(g, tried, done, silent) ==
  g = [s \in SUBSET DOMAIN Folders |->
         IF s = {} THEN delay
         ELSE Outcome(tried, done, silent, g[s \ {Max(s)}], Folders[Max(s)])]

LEMMA DelaysFold ==
  ASSUME NEW tried, NEW done, NEW silent
  PROVE  Delays(tried, done, silent) =
           (CHOOSE g : DelaysEquation(g, tried, done, silent))[DOMAIN Folders]
BY Zenon DEF Delays, FoldLeft, MapThenFoldSet, Outcome, DelaysEquation

LEMMA DelaysTyped ==
  ASSUME NEW tried, NEW done, NEW silent, delay \in DelaySet
  PROVE  Delays(tried, done, silent) \in DelaySet
<1>. DEFINE N == Len(Folders)
            F == [i \in 1 .. N |->
                   [d \in DelaySet |-> Outcome(tried, done, silent, d, Folders[i])]]
            chosen == CHOOSE g : DelaysEquation(g, tried, done, silent)
<1>1. N \in Nat /\ DOMAIN Folders = 1 .. N
  BY FoldersAre
<1>2. F \in [1 .. N -> [DelaySet -> DelaySet]]
  BY FoldersAre, OutcomeTyped
<1>3. \A i \in 1 .. N, d \in DelaySet : F[i][d] = Outcome(tried, done, silent, d, Folders[i])
  OBVIOUS
<1>. HIDE DEF N, F
<1>4. PICK g : FoldsTo(g, N, DelaySet, delay, F)
  BY <1>1, <1>2, FoldExists
<1>5. DelaysEquation(g, tried, done, silent)
  <2>1. ASSUME NEW s \in SUBSET (1 .. N), s # {}
        PROVE  g[s] = Outcome(tried, done, silent, g[s \ {Max(s)}], Folders[Max(s)])
    <3>1. Max(s) \in 1 .. N /\ s \ {Max(s)} \in SUBSET (1 .. N)
      BY <1>1, <2>1, LastIsIn
    <3>2. g[s \ {Max(s)}] \in DelaySet /\ g[s] = F[Max(s)][g[s \ {Max(s)}]]
      BY <1>4, <2>1, <3>1 DEF FoldsTo
    <3>. QED BY <1>3, <3>1, <3>2
  <2>. QED BY <1>1, <1>4, <2>1 DEF FoldsTo, DelaysEquation
<1>6. DelaysEquation(chosen, tried, done, silent)
  BY <1>5
<1>. HIDE DEF chosen
<1>7. ASSUME NEW s \in SUBSET (1 .. N)
      PROVE  /\ s = {} => chosen[s] = delay
             /\ s # {} /\ chosen[s \ {Max(s)}] \in DelaySet =>
                  chosen[s] = F[Max(s)][chosen[s \ {Max(s)}]]
  <2>1. chosen[s] = IF s = {} THEN delay
                    ELSE Outcome(tried, done, silent, chosen[s \ {Max(s)}], Folders[Max(s)])
    BY <1>1, <1>6 DEF DelaysEquation
  <2>2. s # {} => Max(s) \in 1 .. N
    BY <1>1, LastIsIn
  <2>. QED BY <1>3, <2>1, <2>2
<1>8. chosen[1 .. N] \in DelaySet
  BY <1>1, <1>2, <1>7, FoldStaysIn
<1>. QED BY <1>1, <1>8, DelaysFold DEF chosen

-------------------------------------------------------------------------------
(* Types. *)

LEMMA Constants ==
  /\ BackoffMax \in Nat /\ MaxCycle \in Nat /\ MaxChanges \in Nat /\ MaxFaults \in Nat
  /\ Debounce \in Nat \ {0} /\ FullScan \in Nat \ {0}
  /\ WatchRetry \in Nat \ {0} /\ Poll \in Nat \ {0} /\ JitterRatio \in Nat \ {0}
  /\ BackoffMax \div JitterRatio \in Nat
  /\ MaxWait \in Nat /\ BackoffMax <= MaxWait /\ InTime \in Nat
  /\ InTime = FullScan + MaxWait + 2 * MaxCycle
<1>1. /\ BackoffMax \in Nat /\ MaxCycle \in Nat /\ MaxChanges \in Nat /\ MaxFaults \in Nat
      /\ Debounce \in Nat \ {0} /\ FullScan \in Nat \ {0}
      /\ WatchRetry \in Nat \ {0} /\ Poll \in Nat \ {0} /\ JitterRatio \in Nat \ {0}
  BY DaemonAssumption
<1>2. BackoffMax \div JitterRatio \in Nat
  BY <1>1
<1>3. MaxWait \in Nat /\ BackoffMax <= MaxWait
  BY <1>1, <1>2 DEF MaxWait
<1>. QED BY <1>1, <1>2, <1>3 DEF InTime

LEMMA PeerOfTyped ==
  /\ \A f \in FolderSet : PeerOf[f] \in Peers
  /\ \A s : s \subseteq FolderSet => PeersOf(s) \subseteq Peers
BY DaemonAssumption DEF PeersOf

LEMMA FoldersFinite == IsFiniteSet(FolderSet)
<1>1. Folders \in Surjection(1 .. Len(Folders), FolderSet)
  BY DaemonAssumption DEF Surjection, FolderSet, Range
<1>2. IsFiniteSet(1 .. Len(Folders))
  BY FoldersAre, FS_Interval
<1>. QED BY <1>1, <1>2, FS_Surjection

CycleType == [startup : BOOLEAN, tried : SUBSET FolderSet, taken : SUBSET FolderSet,
              shaky : SUBSET Peers, left : 0 .. MaxCycle]

LEMMA CycleTyped ==
  ASSUME TypeOK
  PROVE  /\ cycle \in CycleType
         /\ cycle.startup \in BOOLEAN
         /\ cycle.tried \subseteq FolderSet /\ cycle.taken \subseteq FolderSet
         /\ cycle.shaky \subseteq Peers /\ cycle.left \in 0 .. MaxCycle
BY DEF TypeOK, CycleType

LEMMA NoCycleTyped == NoCycle \in CycleType
BY Constants DEF NoCycle, CycleType

LEMMA NoBackoffTyped ==
  /\ NoBackoff \in [Peers -> 0 .. BackoffMax]
  /\ NoBackoff \in [Peers -> 0 .. MaxWait]
BY Constants DEF NoBackoff

ProbeType == [state : {"none", "sent", "answered"}, asked : SUBSET Peers, answered : SUBSET Peers]

LEMMA ProbeTyped ==
  /\ NoProbe \in ProbeType
  /\ TypeOK => probe.asked \subseteq Peers /\ probe.answered \subseteq Peers
BY DEF NoProbe, ProbeType, TypeOK

\* What StartCycle does.
LEMMA StartTyped ==
  ASSUME TypeOK, NEW startup \in BOOLEAN, NEW waiting, StartCycle(startup, waiting)
  PROVE  /\ phase' = "cycle" /\ cycle' \in CycleType
         /\ owed' \subseteq FolderSet /\ age' \in [FolderSet -> 0 .. InTime + 1]
<1>. DEFINE tried == {f \in bound : waiting[PeerOf[f]] = 0}
<1>1. tried \subseteq FolderSet /\ owed \subseteq FolderSet /\ up \subseteq Peers
      /\ age \in [FolderSet -> 0 .. InTime + 1]
  BY DEF TypeOK
<1>2. PICK length \in 0 .. MaxCycle :
        cycle' = [startup |-> startup, tried |-> tried, taken |-> tried \cap owed,
                  shaky |-> Peers \ up, left |-> length]
  BY DEF StartCycle
<1>3. /\ phase' = "cycle" /\ owed' = owed \ tried
      /\ age' = [f \in FolderSet |-> IF f \in tried THEN 0 ELSE age[f]]
  BY DEF StartCycle
<1>. HIDE DEF tried
<1>4. cycle' \in CycleType
  BY <1>1, <1>2 DEF CycleType
<1>5. age' \in [FolderSet -> 0 .. InTime + 1]
  BY <1>1, <1>3, Constants
<1>. QED BY <1>1, <1>3, <1>4, <1>5

LEMMA EnvironmentTyped ==
  ASSUME TypeOK,
         \/ \E f \in FolderSet, here \in BOOLEAN : Change(f, here)
         \/ \E ps \in SUBSET Peers : Outage(ps)
         \/ \E p \in Peers : Return(p)
         \/ \E f \in FolderSet : Rebind(f) \/ WatchLost(f)
  PROVE  TypeOK'
<1>1. ASSUME NEW f \in FolderSet, NEW here \in BOOLEAN, Change(f, here) PROVE TypeOK'
  BY <1>1, Constants DEF TypeOK, Change, timers, backoff
<1>2. ASSUME NEW ps \in SUBSET Peers, Outage(ps) PROVE TypeOK'
  <2>1. cycle' \in CycleType
    BY <1>2, CycleTyped DEF Outage, CycleType
  <2>. QED BY <1>2, <2>1, Constants DEF TypeOK, Outage, Fault, timers, backoff, CycleType
<1>3. ASSUME NEW p \in Peers, Return(p) PROVE TypeOK'
  BY <1>3 DEF TypeOK, Return, timers, backoff
<1>4. ASSUME NEW f \in FolderSet, Rebind(f) PROVE TypeOK'
  BY <1>4, Constants DEF TypeOK, Rebind, Fault, timers, backoff
<1>5. ASSUME NEW f \in FolderSet, WatchLost(f) PROVE TypeOK'
  BY <1>5, Constants DEF TypeOK, WatchLost, Fault, timers, backoff
<1>. QED BY <1>1, <1>2, <1>3, <1>4, <1>5

LEMMA NextRetryIs ==
  ASSUME NEW waiting \in [Peers -> 0 .. MaxWait]
  PROVE  /\ NextRetry(waiting) \in {Off} \cup 0 .. MaxWait
         /\ \A p \in Peers : waiting[p] > 0 => NextRetry(waiting) \in 0 .. waiting[p]
<1>. DEFINE waits == {waiting[p] : p \in Peers} \ {0}
<1>1. waits \subseteq 0 .. MaxWait /\ waits \subseteq Nat
  BY Constants
<1>2. CASE waits = {}
  <2>1. NextRetry(waiting) = Off
    BY <1>2 DEF NextRetry
  <2>2. \A p \in Peers : waiting[p] = 0
    BY <1>2
  <2>. QED BY <2>1, <2>2
<1>3. CASE waits # {}
  <2>1. \E w \in waits : \A v \in waits : w <= v
    BY <1>1, <1>3, LeastNumber
  <2>2. NextRetry(waiting) = CHOOSE w \in waits : \A v \in waits : w <= v
    BY <1>3 DEF NextRetry
  <2>3. NextRetry(waiting) \in waits /\ \A v \in waits : NextRetry(waiting) <= v
    BY <2>1, <2>2
  <2>4. \A p \in Peers : waiting[p] > 0 => waiting[p] \in waits
    OBVIOUS
  <2>. HIDE DEF waits
  <2>5. NextRetry(waiting) \in 0 .. MaxWait
    BY <1>1, <2>3
  <2>6. ASSUME NEW p \in Peers, waiting[p] > 0 PROVE NextRetry(waiting) \in 0 .. waiting[p]
    <3>1. NextRetry(waiting) <= waiting[p]
      BY <2>3, <2>4, <2>6
    <3>. QED BY <2>5, <3>1, Constants
  <2>. QED BY <2>5, <2>6
<1>. QED BY <1>2, <1>3

\* What FinishCycle does with what depends on the folders' outcomes.
LEMMA FinishDoes ==
  ASSUME TypeOK, FinishCycle
  PROVE  /\ phase = "cycle" /\ cycle.left = 0 /\ phase' = "loop" /\ cycle' = NoCycle
         /\ faults' \in 0 .. MaxFaults
         /\ owed' \subseteq FolderSet /\ failed' \subseteq FolderSet /\ active' \subseteq Peers
         /\ delay' \in [Peers -> 0 .. BackoffMax]
         /\ wait' \in [Peers -> 0 .. MaxWait]
         /\ \A p \in Peers : p \notin PeersOf(cycle.tried) => wait'[p] \in {0, wait[p]}
         /\ retry' = NextRetry(wait')
<1>1. PICK done \in SUBSET {f \in cycle.tried : PeerOf[f] \in up} :
       LET unsuccessful == cycle.tried \ done
           silent == {f \in unsuccessful : PeerOf[f] \notin active}
           own    == {f \in unsuccessful : PeerOf[f] \notin cycle.shaky}
           delays == Delays(cycle.tried, done, silent)
           backed == {p \in PeersOf(unsuccessful \ silent) : delays[p] # 0}
       IN
       /\ faults + Cardinality(own) <= MaxFaults
       /\ faults' = faults + Cardinality(own)
       /\ owed' = owed \cup (cycle.taken \ done)
       /\ failed' = (failed \ cycle.tried) \cup (unsuccessful \ silent)
       /\ active' = active \cup PeersOf(done)
       /\ delay' = delays
       /\ \E jitter \in [backed -> 0 .. (BackoffMax \div JitterRatio)] :
            /\ \A p \in backed : jitter[p] \in Jitters(delays[p])
            /\ wait' = [p \in Peers |->
                 IF p \in backed THEN delays[p] + jitter[p]
                 ELSE IF delays[p] = 0 THEN 0 ELSE wait[p]]
       /\ retry' = NextRetry(wait')
  BY DEF FinishCycle
<1>. DEFINE unsuccessful == cycle.tried \ done
            silent == {f \in unsuccessful : PeerOf[f] \notin active}
            own    == {f \in unsuccessful : PeerOf[f] \notin cycle.shaky}
            delays == Delays(cycle.tried, done, silent)
            backed == {p \in PeersOf(unsuccessful \ silent) : delays[p] # 0}
<1>2. delays \in [Peers -> 0 .. BackoffMax]
  BY DelaysTyped DEF TypeOK, DelaySet
<1>3. faults' \in 0 .. MaxFaults
  <2>1. IsFiniteSet(own)
    BY CycleTyped, FoldersFinite, FS_Subset
  <2>2. Cardinality(own) \in Nat
    BY <2>1, FS_CardinalityType
  <2>3. faults' = faults + Cardinality(own) /\ faults + Cardinality(own) <= MaxFaults
    BY <1>1
  <2>. HIDE DEF own
  <2>. QED BY <2>2, <2>3, Constants DEF TypeOK
<1>4. owed' \subseteq FolderSet /\ failed' \subseteq FolderSet
  BY <1>1, CycleTyped DEF TypeOK
<1>5. active' \subseteq Peers
  <2>1. done \subseteq FolderSet
    BY CycleTyped
  <2>. QED BY <1>1, <2>1, PeerOfTyped DEF TypeOK
<1>6. PICK jitter \in [backed -> 0 .. (BackoffMax \div JitterRatio)] :
        wait' = [p \in Peers |-> IF p \in backed THEN delays[p] + jitter[p]
                                 ELSE IF delays[p] = 0 THEN 0 ELSE wait[p]]
  BY <1>1
<1>7. delay' = delays /\ retry' = NextRetry(wait')
  BY <1>1
<1>8. backed \subseteq PeersOf(cycle.tried)
  BY DEF PeersOf
<1>. HIDE DEF backed, delays
<1>9. ASSUME NEW p \in Peers
      PROVE  /\ wait'[p] \in 0 .. MaxWait
             /\ p \notin PeersOf(cycle.tried) => wait'[p] \in {0, wait[p]}
  <2>1. wait[p] \in 0 .. MaxWait /\ delays[p] \in 0 .. BackoffMax
    BY <1>2 DEF TypeOK
  <2>2. CASE p \in backed
    <3>1. wait'[p] = delays[p] + jitter[p] /\ jitter[p] \in 0 .. (BackoffMax \div JitterRatio)
      BY <1>6, <2>2
    <3>. QED BY <1>8, <2>1, <2>2, <3>1, Constants DEF MaxWait
  <2>3. CASE p \notin backed
    BY <1>6, <2>1, <2>3, Constants
  <2>. QED BY <2>2, <2>3
<1>10. wait' \in [Peers -> 0 .. MaxWait]
  BY <1>6, <1>9
<1>. QED BY <1>2, <1>3, <1>4, <1>5, <1>7, <1>9, <1>10 DEF FinishCycle

LEMMA FinishTyped ==
  ASSUME TypeOK, FinishCycle
  PROVE  TypeOK'
<1>1. retry' \in {Off} \cup 0 .. MaxWait
  BY FinishDoes, NextRetryIs
<1>2. reachable' \subseteq Peers
  BY DEF FinishCycle, TypeOK
<1>3. /\ UNCHANGED <<up, bound, events, cfg, dirty, debounce, due, full, watch, poll,
                     probe, watched, changes, age>>
  BY DEF FinishCycle
<1>. QED BY <1>1, <1>2, <1>3, FinishDoes, NoCycleTyped DEF TypeOK, CycleType

LEMMA StartsTyped ==
  ASSUME TypeOK, Start \/ DebounceDue \/ FullScanDue \/ RetryDue
  PROVE  TypeOK'
<1>1. CASE Start
  <2>1. StartCycle(TRUE, wait)
    BY <1>1 DEF Start
  <2>2. /\ phase' = "cycle" /\ cycle' \in CycleType
        /\ owed' \subseteq FolderSet /\ age' \in [FolderSet -> 0 .. InTime + 1]
    BY <2>1, StartTyped
  <2>. QED BY <1>1, <2>2 DEF Start, TypeOK, timers, backoff, CycleType
<1>2. CASE DebounceDue
  <2>1. StartCycle(FALSE, wait)
    BY <1>2 DEF DebounceDue
  <2>2. /\ phase' = "cycle" /\ cycle' \in CycleType
        /\ owed' \subseteq FolderSet /\ age' \in [FolderSet -> 0 .. InTime + 1]
    BY <2>1, StartTyped
  <2>. QED BY <1>2, <2>2 DEF DebounceDue, TypeOK, timers, backoff, CycleType
<1>3. CASE FullScanDue
  <2>1. StartCycle(FALSE, wait)
    BY <1>3 DEF FullScanDue, FullScanWanted
  <2>2. /\ phase' = "cycle" /\ cycle' \in CycleType
        /\ owed' \subseteq FolderSet /\ age' \in [FolderSet -> 0 .. InTime + 1]
    BY <2>1, StartTyped
  <2>. QED BY <1>3, <2>2 DEF FullScanDue, TypeOK, timers, backoff, CycleType
<1>4. CASE RetryDue
  <2>1. StartCycle(FALSE, wait)
    BY <1>4 DEF RetryDue
  <2>2. /\ phase' = "cycle" /\ cycle' \in CycleType
        /\ owed' \subseteq FolderSet /\ age' \in [FolderSet -> 0 .. InTime + 1]
    BY <2>1, StartTyped
  <2>. QED BY <1>4, <2>2 DEF RetryDue, TypeOK, timers, backoff, CycleType
<1>. QED BY <1>1, <1>2, <1>3, <1>4

LEMMA LoopTyped ==
  ASSUME TypeOK, Stop \/ ConfigEvent \/ FileEvent \/ WatchRetryDue \/ PollDue \/ Answer
  PROVE  TypeOK'
<1>1. CASE Stop
  <2>1. /\ cycle' \in CycleType /\ probe' \in ProbeType
        /\ delay' \in [Peers -> 0 .. BackoffMax] /\ wait' \in [Peers -> 0 .. MaxWait]
    BY <1>1, NoCycleTyped, NoBackoffTyped, ProbeTyped DEF Stop
  <2>2. owed' \subseteq FolderSet /\ faults' \in 0 .. MaxFaults
    BY <1>1, CycleTyped, Constants DEF Stop, Fault, TypeOK
  <2>3. age' \in [FolderSet -> 0 .. InTime + 1]
    BY <1>1, Constants DEF Stop
  <2>4. full' \in 1 .. FullScan /\ watch' \in 1 .. WatchRetry /\ poll' \in 1 .. Poll
    BY <1>1, Constants DEF Stop
  <2>. QED BY <1>1, <2>1, <2>2, <2>3, <2>4 DEF Stop, TypeOK, CycleType, ProbeType
<1>2. CASE ConfigEvent
  <2>1. \/ dirty' = TRUE /\ debounce' = Debounce
        \/ dirty' = dirty /\ debounce' = debounce
    BY <1>2, Zenon DEF ConfigEvent, MarkDirty
  <2>2. dirty' \in BOOLEAN
    BY <2>1, Zenon DEF TypeOK
  <2>3. debounce' \in {Off} \cup 0 .. Debounce
    BY <2>1, Constants DEF TypeOK
  <2>4. cfg' \subseteq FolderSet /\ events' \subseteq {"file", "config"}
    BY <1>2 DEF ConfigEvent, TypeOK
  <2>5. UNCHANGED <<environment, phase, cycle, retry, due, full, watch, poll, backoff, reachable,
                    probe>>
    BY <1>2 DEF ConfigEvent
  <2>. QED BY <2>2, <2>3, <2>4, <2>5 DEF TypeOK, backoff, environment
<1>3. CASE FileEvent
  BY <1>3, Constants DEF FileEvent, MarkDirty, TypeOK, timers, backoff, environment
<1>4. CASE WatchRetryDue
  BY <1>4 DEF WatchRetryDue, TypeOK, timers, backoff
<1>5. CASE PollDue
  <2>1. PeersOf(cfg) \subseteq Peers
    BY PeerOfTyped DEF TypeOK
  <2>2. probe' \in ProbeType
    BY <1>5, <2>1 DEF PollDue, TypeOK, ProbeType
  <2>. QED BY <1>5, <2>2 DEF PollDue, TypeOK, timers, backoff, environment, ProbeType
<1>6. CASE Answer
  <2>1. probe' \in ProbeType
    BY <1>6 DEF Answer, TypeOK, ProbeType
  <2>. QED BY <1>6, <2>1 DEF Answer, TypeOK, timers, backoff, environment, ProbeType
<1>. QED BY <1>1, <1>2, <1>3, <1>4, <1>5, <1>6

LEMMA ForgottenTyped ==
  ASSUME NEW m \in Nat, NEW old \in [Peers -> 0 .. m], NEW ps
  PROVE  /\ Forgotten(old, ps) \in [Peers -> 0 .. m]
         /\ \A p \in Peers : Forgotten(old, ps)[p] \in {0, old[p]}
BY DEF Forgotten

LEMMA ProbedTyped ==
  ASSUME TypeOK, Probed
  PROVE  TypeOK'
<1>. DEFINE reconnected == probe.answered \ reachable
<1>1. /\ delay' = Forgotten(delay, reconnected) /\ wait' = Forgotten(wait, reconnected)
      /\ probe' = NoProbe /\ reachable' = (reachable \ probe.asked) \cup probe.answered
      /\ StartCycle(FALSE, wait') \/ UNCHANGED <<phase, cycle, owed, age>>
      /\ UNCHANGED <<up, active, bound, failed, events, cfg, dirty, timers, watched, changes, faults>>
  BY DEF Probed
<1>2. delay' \in [Peers -> 0 .. BackoffMax] /\ wait' \in [Peers -> 0 .. MaxWait]
  BY <1>1, ForgottenTyped, Constants DEF TypeOK
<1>3. probe' \in ProbeType /\ reachable' \subseteq Peers
  BY <1>1, ProbeTyped DEF TypeOK
<1>4. /\ phase' \in {"stopped", "cycle", "loop"} /\ cycle' \in CycleType
      /\ owed' \subseteq FolderSet /\ age' \in [FolderSet -> 0 .. InTime + 1]
  <2>1. CASE StartCycle(FALSE, wait')
    BY <2>1, StartTyped
  <2>2. CASE UNCHANGED <<phase, cycle, owed, age>>
    BY <2>2, CycleTyped DEF TypeOK
  <2>. QED BY <1>1, <2>1, <2>2
<1>. QED BY <1>1, <1>2, <1>3, <1>4 DEF TypeOK, timers, CycleType, ProbeType

LEMMA TickTyped ==
  ASSUME TypeOK, Tick
  PROVE  TypeOK'
<1>1. cycle' \in CycleType
  BY CycleTyped, Constants DEF Tick, Less, CycleType
<1>2. debounce' \in {Off} \cup 0 .. Debounce /\ retry' \in {Off} \cup 0 .. MaxWait
  BY Constants DEF Tick, Less, TypeOK, Off
<1>3. wait' \in [Peers -> 0 .. MaxWait]
  BY Constants DEF Tick, Less, TypeOK
<1>4. full' \in 1 .. FullScan /\ watch' \in 1 .. WatchRetry /\ poll' \in 1 .. Poll
  BY Constants DEF Tick, Ticked, TypeOK
<1>5. due' \subseteq {"full", "watch", "poll"}
  BY DEF Tick, TypeOK
<1>6. age' \in [FolderSet -> 0 .. InTime + 1]
  <2>1. ASSUME NEW f \in FolderSet
        PROVE  (IF f \in owed \cap bound /\ PeerOf[f] \in up
                THEN IF age[f] <= InTime THEN age[f] + 1 ELSE age[f] ELSE 0) \in 0 .. InTime + 1
    BY Constants DEF TypeOK
  <2>. QED BY <2>1 DEF Tick
<1>7. UNCHANGED <<owed, up, active, bound, failed, events, phase, cfg, dirty, delay, reachable,
                  probe, watched, changes, faults>>
  BY DEF Tick
<1>. QED BY <1>1, <1>2, <1>3, <1>4, <1>5, <1>6, <1>7 DEF TypeOK, CycleType

\* Every reachable state of the loop, its timers and its backoff is well typed,
\* for any folders, peers, periods, changes and faults.
THEOREM TypeCorrect == Spec => []TypeOK
<1>1. Init => TypeOK
  <2>. SUFFICES ASSUME Init PROVE TypeOK
    OBVIOUS
  <2>1. /\ cycle \in CycleType /\ probe \in ProbeType
        /\ delay \in [Peers -> 0 .. BackoffMax] /\ wait \in [Peers -> 0 .. MaxWait]
    BY NoCycleTyped, NoBackoffTyped, ProbeTyped DEF Init
  <2>2. age \in [FolderSet -> 0 .. InTime + 1]
    BY Constants DEF Init
  <2>3. /\ full \in 1 .. FullScan /\ watch \in 1 .. WatchRetry /\ poll \in 1 .. Poll
        /\ changes \in 0 .. MaxChanges /\ faults \in 0 .. MaxFaults
    BY Constants DEF Init
  <2>. QED BY <2>1, <2>2, <2>3 DEF Init, TypeOK, CycleType, ProbeType
<1>2. TypeOK /\ [Next]_vars => TypeOK'
  <2>. SUFFICES ASSUME TypeOK, [Next]_vars PROVE TypeOK'
    OBVIOUS
  <2>1. CASE UNCHANGED vars
    BY <2>1 DEF vars, TypeOK
  <2>. QED BY <2>1, EnvironmentTyped, FinishTyped, StartsTyped, LoopTyped, ProbedTyped, TickTyped
           DEF Next, Daemon
<1>. QED BY <1>1, <1>2, PTL DEF Spec

-------------------------------------------------------------------------------
(* The retry timer. *)

\* Only the end of a cycle and a tick touch the timer or lengthen a wait.
LEMMA BackoffCoveredStep ==
  ASSUME TypeOK, BackoffCovered, [Next]_vars
  PROVE  BackoffCovered'
<1>1. CASE FinishCycle
  BY <1>1, FinishDoes, NextRetryIs DEF BackoffCovered
<1>2. CASE Tick
  <2>. SUFFICES ASSUME phase = "loop", NEW p \in Peers, wait'[p] > 0
                PROVE  retry' \in 0 .. wait'[p]
    BY <1>2 DEF Tick, BackoffCovered
  <2>1. wait[p] \in 0 .. MaxWait /\ wait'[p] = Less(wait[p]) /\ retry' = Less(retry) /\ retry # 0
    BY <1>2 DEF Tick, Ready, TypeOK
  <2>2. wait[p] > 0 /\ wait'[p] = wait[p] - 1
    BY <2>1, Constants DEF Less
  <2>3. retry \in 0 .. wait[p]
    BY <2>2 DEF BackoffCovered
  <2>. QED BY <2>1, <2>2, <2>3, Constants DEF Less
<1>3. CASE Probed
  <2>1. CASE probe.answered \ reachable # {}
    BY <1>3, <2>1 DEF Probed, StartCycle, BackoffCovered
  <2>2. CASE probe.answered \ reachable = {}
    <3>1. \A p \in Peers : wait'[p] = wait[p]
      BY <1>3, <2>2 DEF Probed, Forgotten
    <3>. QED BY <1>3, <2>2, <3>1 DEF Probed, timers, BackoffCovered
  <2>. QED BY <2>1, <2>2
<1>4. CASE Start \/ DebounceDue \/ FullScanDue \/ RetryDue \/ Stop
  BY <1>4 DEF Start, DebounceDue, FullScanDue, FullScanWanted, RetryDue, Stop, StartCycle,
              BackoffCovered
<1>5. CASE \/ UNCHANGED vars
           \/ \E f \in FolderSet, here \in BOOLEAN : Change(f, here)
           \/ \E ps \in SUBSET Peers : Outage(ps)
           \/ \E p \in Peers : Return(p)
           \/ \E f \in FolderSet : Rebind(f) \/ WatchLost(f)
           \/ ConfigEvent \/ FileEvent \/ WatchRetryDue \/ PollDue \/ Answer
  <2>1. phase' = phase /\ wait' = wait /\ retry' = retry
    BY <1>5 DEF vars, Change, Outage, Return, Rebind, WatchLost, ConfigEvent, FileEvent,
                WatchRetryDue, PollDue, Answer, timers, backoff, environment
  <2>. QED BY <2>1 DEF BackoffCovered
<1>. QED BY <1>1, <1>2, <1>3, <1>4, <1>5 DEF Next, Daemon

\* Whatever cycles, probes and ticks come in between, the retry timer of a waiting
\* loop is due no later than the first peer that backs off.
THEOREM RetryCoversBackoff == Spec => []BackoffCovered
<1>1. Init => BackoffCovered
  BY DEF Init, BackoffCovered
<1>2. TypeOK /\ BackoffCovered /\ [Next]_vars => BackoffCovered'
  BY BackoffCoveredStep
<1>. QED BY <1>1, <1>2, TypeCorrect, PTL DEF Spec

-------------------------------------------------------------------------------
(* The time a change waits. *)

\* While the loop waits, a change has time left for what may still delay it: what
\* its peer backs off, a cycle under way when that ends, and the full scan.
AgeInLoop(f) ==
  LET left == wait[PeerOf[f]] IN
  IF left > 0 THEN age[f] + left + MaxCycle + FullScan <= InTime
  ELSE age[f] + (IF "full" \in due THEN 0 ELSE full) <= InTime

\* In a cycle, its folder is among those tried or has not been bound for longer than
\* the cycle takes; or its peer was backing off, and no folder of that peer is tried.
AgeInCycle(f) ==
  LET left == wait[PeerOf[f]] IN
  \/ age[f] + cycle.left <= MaxCycle
  \/ /\ PeerOf[f] \notin PeersOf(cycle.tried)
     /\ age[f] + left + FullScan + (IF left > 0 THEN MaxCycle ELSE cycle.left) <= InTime

AgeBounded ==
  \A f \in FolderSet :
    /\ f \notin bound \/ phase = "stopped" => age[f] = 0
    /\ phase = "loop" => AgeInLoop(f)
    /\ phase = "cycle" => AgeInCycle(f)

LEMMA StateNumbers ==
  ASSUME TypeOK, NEW f \in FolderSet
  PROVE  /\ age[f] \in 0 .. InTime + 1 /\ wait[PeerOf[f]] \in 0 .. MaxWait
         /\ full \in 1 .. FullScan /\ cycle.left \in 0 .. MaxCycle
BY CycleTyped, PeerOfTyped DEF TypeOK

LEMMA StartKeepsAge ==
  ASSUME TypeOK, AgeBounded, NEW startup, phase \in {"stopped", "loop"},
         StartCycle(startup, wait'),
         \A p \in Peers : wait'[p] \in {0, wait[p]}, bound' = bound
  PROVE  AgeBounded'
<1>. DEFINE tried == {f \in bound : wait'[PeerOf[f]] = 0}
<1>1. PICK length \in 0 .. MaxCycle :
        cycle' = [startup |-> startup, tried |-> tried, taken |-> tried \cap owed,
                  shaky |-> Peers \ up, left |-> length]
  BY DEF StartCycle
<1>2. /\ phase' = "cycle" /\ cycle'.tried = tried /\ cycle'.left \in 0 .. MaxCycle
      /\ age' = [f \in FolderSet |-> IF f \in tried THEN 0 ELSE age[f]]
  BY <1>1 DEF StartCycle
<1>. SUFFICES ASSUME NEW f \in FolderSet
              PROVE  (f \notin bound => age'[f] = 0) /\ AgeInCycle(f)'
  BY <1>2 DEF AgeBounded
<1>3. CASE f \in tried \/ f \notin bound \/ phase = "stopped"
  <2>1. age'[f] = 0
    BY <1>2, <1>3 DEF AgeBounded
  <2>2. cycle'.left <= MaxCycle
    BY <1>2, Constants
  <2>. QED BY <1>2, <2>1, <2>2, Constants DEF AgeInCycle
<1>4. CASE f \notin tried /\ f \in bound /\ phase = "loop"
  <2>1. PeerOf[f] \in Peers /\ wait'[PeerOf[f]] # 0
    BY <1>4, PeerOfTyped
  <2>2. wait'[PeerOf[f]] = wait[PeerOf[f]] /\ wait[PeerOf[f]] > 0
    BY <2>1, StateNumbers, Constants
  <2>3. PeerOf[f] \notin PeersOf(cycle'.tried)
    BY <1>2, <2>1 DEF PeersOf
  <2>4. age'[f] = age[f] /\ age[f] + wait[PeerOf[f]] + MaxCycle + FullScan <= InTime
    BY <1>2, <1>4, <2>2 DEF AgeBounded, AgeInLoop
  <2>5. age[f] + wait[PeerOf[f]] + FullScan + MaxCycle <= InTime
    BY <2>4, StateNumbers, Constants
  <2>. QED BY <1>4, <2>2, <2>3, <2>4, <2>5 DEF AgeInCycle
<1>. QED BY <1>3, <1>4

LEMMA FinishKeepsAge ==
  ASSUME TypeOK, TypeOK', AgeBounded, FinishCycle
  PROVE  AgeBounded'
<1>1. /\ phase = "cycle" /\ cycle.left = 0 /\ phase' = "loop"
      /\ UNCHANGED <<bound, due, full, age>>
  BY FinishDoes DEF FinishCycle
<1>. SUFFICES ASSUME NEW f \in FolderSet PROVE AgeInLoop(f)'
  BY <1>1 DEF AgeBounded
<1>. DEFINE w == wait[PeerOf[f]]
            u == wait'[PeerOf[f]]
<1>2. w \in Nat /\ u \in Nat /\ u <= MaxWait /\ age[f] \in Nat /\ full \in 1 .. FullScan
  <2>1. u \in 0 .. MaxWait
    BY PeerOfTyped DEF TypeOK
  <2>. QED BY <2>1, StateNumbers, Constants
<1>3. \/ age[f] <= MaxCycle
      \/ (u = 0 \/ u = w) /\ age[f] + w + FullScan + (IF w > 0 THEN MaxCycle ELSE 0) <= InTime
  <2>1. CASE age[f] + cycle.left <= MaxCycle
    BY <1>1, <1>2, <2>1
  <2>2. CASE /\ PeerOf[f] \notin PeersOf(cycle.tried)
             /\ age[f] + w + FullScan + (IF w > 0 THEN MaxCycle ELSE cycle.left) <= InTime
    BY <1>1, <2>2, FinishDoes, PeerOfTyped
  <2>. QED BY <1>1, <2>1, <2>2 DEF AgeBounded, AgeInCycle
<1>4. AgeInLoop(f)' <=> IF u > 0 THEN age[f] + u + MaxCycle + FullScan <= InTime
                        ELSE age[f] + (IF "full" \in due THEN 0 ELSE full) <= InTime
  BY <1>1 DEF AgeInLoop
<1>. HIDE DEF w, u
<1>. QED BY <1>2, <1>3, <1>4, Constants

LEMMA TickKeepsAge ==
  ASSUME TypeOK, AgeBounded, Tick
  PROVE  AgeBounded'
<1>1. /\ phase' = phase /\ phase \in {"loop", "cycle"} /\ bound' = bound
      /\ cycle' = [cycle EXCEPT !.left = Less(@)]
      /\ phase = "cycle" => cycle.left > 0
      /\ phase = "loop" => due = {}
      /\ full' = Ticked(full, FullScan)
      /\ full = 1 => "full" \in due'
  BY DEF Tick, Ready
<1>. SUFFICES ASSUME NEW f \in FolderSet
              PROVE  /\ f \notin bound => age'[f] = 0
                     /\ phase = "loop" => AgeInLoop(f)'
                     /\ phase = "cycle" => AgeInCycle(f)'
  BY <1>1 DEF AgeBounded
<1>. DEFINE w == wait[PeerOf[f]]
            u == wait'[PeerOf[f]]
<1>2. w \in 0 .. MaxWait /\ u = Less(w) /\ age[f] \in Nat /\ full \in 1 .. FullScan
  BY StateNumbers, PeerOfTyped, Constants DEF Tick
<1>3. age'[f] = IF f \in owed \cap bound /\ PeerOf[f] \in up
                THEN IF age[f] <= InTime THEN age[f] + 1 ELSE age[f] ELSE 0
  BY DEF Tick
<1>4. age'[f] \in Nat /\ age'[f] <= age[f] + 1
  BY <1>2, <1>3
<1>5. ASSUME phase = "loop" PROVE AgeInLoop(f)'
  <2>1. IF w > 0 THEN age[f] + w + MaxCycle + FullScan <= InTime ELSE age[f] + full <= InTime
    BY <1>1, <1>5 DEF AgeBounded, AgeInLoop
  <2>2. AgeInLoop(f)' <=> IF u > 0 THEN age'[f] + u + MaxCycle + FullScan <= InTime
                          ELSE age'[f] + (IF "full" \in due' THEN 0 ELSE full') <= InTime
    BY DEF AgeInLoop
  <2>3. full' \in 1 .. FullScan /\ (full # 1 => full' = full - 1)
    BY <1>1, <1>2, Constants DEF Ticked
  <2>. HIDE DEF w, u
  <2>. QED BY <1>1, <1>2, <1>4, <2>1, <2>2, <2>3, Constants DEF Less
<1>6. ASSUME phase = "cycle" PROVE AgeInCycle(f)'
  <2>1. cycle'.tried = cycle.tried /\ cycle'.left = cycle.left - 1 /\ cycle.left \in 1 .. MaxCycle
    BY <1>1, <1>6, CycleTyped, Constants DEF Less, CycleType
  <2>2. CASE age[f] + cycle.left <= MaxCycle
    <3>1. age'[f] + cycle'.left <= MaxCycle
      BY <1>2, <1>4, <2>1, <2>2, Constants
    <3>. QED BY <3>1 DEF AgeInCycle
  <2>3. CASE /\ PeerOf[f] \notin PeersOf(cycle.tried)
             /\ age[f] + w + FullScan + (IF w > 0 THEN MaxCycle ELSE cycle.left) <= InTime
    <3>1. age'[f] + u + FullScan + (IF u > 0 THEN MaxCycle ELSE cycle'.left) <= InTime
      <4>. HIDE DEF w, u
      <4>. QED BY <1>2, <1>4, <2>1, <2>3, Constants DEF Less
    <3>2. PeerOf[f] \notin PeersOf(cycle'.tried)
      BY <2>1, <2>3
    <3>. QED BY <3>1, <3>2 DEF AgeInCycle
  <2>. QED BY <1>6, <2>2, <2>3 DEF AgeBounded, AgeInCycle
<1>7. f \notin bound => age'[f] = 0
  BY <1>3
<1>. QED BY <1>5, <1>6, <1>7

LEMMA RebindKeepsAge ==
  ASSUME TypeOK, AgeBounded, NEW f \in FolderSet, Rebind(f)
  PROVE  AgeBounded'
<1>1. /\ UNCHANGED <<phase, cycle, wait, due, full>>
      /\ age' = [age EXCEPT ![f] = 0]
      /\ \A g \in FolderSet : g # f => (g \in bound' <=> g \in bound)
  BY DEF Rebind, timers, backoff
<1>. SUFFICES ASSUME NEW g \in FolderSet
              PROVE  /\ g \notin bound' \/ phase = "stopped" => age'[g] = 0
                     /\ phase = "loop" => AgeInLoop(g)'
                     /\ phase = "cycle" => AgeInCycle(g)'
  BY <1>1 DEF AgeBounded
<1>2. CASE g # f
  <2>1. age'[g] = age[g]
    BY <1>1, <1>2 DEF TypeOK
  <2>. QED BY <1>1, <1>2, <2>1 DEF AgeBounded, AgeInLoop, AgeInCycle
<1>3. CASE g = f
  <2>1. age'[g] = 0
    BY <1>1, <1>3 DEF TypeOK
  <2>2. /\ wait[PeerOf[g]] \in 0 .. MaxWait /\ full \in 1 .. FullScan
        /\ cycle.left \in 0 .. MaxCycle
    BY StateNumbers
  <2>3. AgeInLoop(g)'
    BY <1>1, <2>1, <2>2, Constants DEF AgeInLoop
  <2>4. AgeInCycle(g)'
    BY <1>1, <2>1, <2>2, Constants DEF AgeInCycle
  <2>. QED BY <2>1, <2>3, <2>4
<1>. QED BY <1>2, <1>3

LEMMA AgeBoundedStep ==
  ASSUME TypeOK, TypeOK', AgeBounded, [Next]_vars
  PROVE  AgeBounded'
<1>1. CASE Start \/ DebounceDue \/ FullScanDue \/ RetryDue
  <2>1. \E startup \in BOOLEAN : StartCycle(startup, wait)
    BY <1>1 DEF Start, DebounceDue, FullScanDue, FullScanWanted, RetryDue
  <2>2. /\ phase \in {"stopped", "loop"} /\ wait' = wait /\ bound' = bound
    BY <1>1 DEF Start, DebounceDue, FullScanDue, RetryDue, InLoop, backoff
  <2>3. \E startup \in BOOLEAN : StartCycle(startup, wait')
    BY <2>1, <2>2 DEF StartCycle
  <2>. QED BY <2>2, <2>3, StartKeepsAge
<1>2. CASE Probed
  <2>0. phase = "loop" /\ bound' = bound /\ \A p \in Peers : wait'[p] \in {0, wait[p]}
    BY <1>2 DEF Probed, InLoop, Forgotten
  <2>1. CASE StartCycle(FALSE, wait')
    <3>1. \E startup \in BOOLEAN : StartCycle(startup, wait')
      BY <2>1, Zenon
    <3>. QED BY <2>0, <3>1, StartKeepsAge
  <2>2. CASE ~StartCycle(FALSE, wait')
    <3>1. /\ probe.answered \ reachable = {}
          /\ UNCHANGED <<phase, cycle, age, bound, due, full>>
      BY <1>2, <2>2 DEF Probed, timers
    <3>2. \A p \in Peers : wait'[p] = wait[p]
      BY <1>2, <3>1 DEF Probed, Forgotten
    <3>. QED BY <3>1, <3>2, PeerOfTyped DEF AgeBounded, AgeInLoop, AgeInCycle
  <2>. QED BY <2>1, <2>2
<1>3. CASE Stop
  BY <1>3 DEF Stop, AgeBounded
<1>4. CASE \/ UNCHANGED vars
           \/ \E f \in FolderSet, here \in BOOLEAN : Change(f, here)
           \/ \E p \in Peers : Return(p)
           \/ \E f \in FolderSet : WatchLost(f)
           \/ ConfigEvent \/ FileEvent \/ Answer
  <2>1. UNCHANGED <<phase, cycle, age, bound, wait, due, full>>
    BY <1>4 DEF vars, Change, Return, WatchLost, ConfigEvent, FileEvent, Answer, timers, backoff,
                environment
  <2>. QED BY <2>1 DEF AgeBounded, AgeInLoop, AgeInCycle
<1>5. CASE WatchRetryDue \/ PollDue
  <2>1. /\ UNCHANGED <<phase, cycle, age, bound, wait, full>>
        /\ "full" \in due' <=> "full" \in due
    BY <1>5 DEF WatchRetryDue, PollDue, backoff, environment
  <2>. QED BY <2>1 DEF AgeBounded, AgeInLoop, AgeInCycle
<1>6. ASSUME NEW ps \in SUBSET Peers, Outage(ps) PROVE AgeBounded'
  <2>1. /\ UNCHANGED <<phase, age, bound, wait, due, full>>
        /\ cycle'.tried = cycle.tried /\ cycle'.left = cycle.left
    BY <1>6, CycleTyped DEF Outage, timers, backoff, CycleType
  <2>. QED BY <2>1 DEF AgeBounded, AgeInLoop, AgeInCycle
<1>. QED BY <1>1, <1>2, <1>3, <1>4, <1>5, <1>6, FinishKeepsAge, TickKeepsAge, RebindKeepsAge
         DEF Next, Daemon

LEMMA AgesInTime ==
  ASSUME TypeOK, AgeBounded
  PROVE  TriedInTime
<1>. SUFFICES ASSUME NEW f \in FolderSet PROVE age[f] <= InTime
  BY DEF TriedInTime
<1>1. /\ age[f] \in Nat /\ wait[PeerOf[f]] \in Nat /\ full \in Nat /\ cycle.left \in Nat
  BY StateNumbers, Constants
<1>2. CASE phase = "stopped"
  BY <1>2, Constants DEF AgeBounded
<1>3. CASE phase = "loop"
  BY <1>1, <1>3, Constants DEF AgeBounded, AgeInLoop
<1>4. CASE phase = "cycle"
  BY <1>1, <1>4, Constants DEF AgeBounded, AgeInCycle
<1>. QED BY <1>2, <1>3, <1>4 DEF TypeOK

\* A change whose peer answers is tried within a full scan after the longest
\* backoff and two cycles, in whatever order the loop reads its channels, and
\* whatever fails, is missed or is rebound in between.
THEOREM ChangesTriedInTime == Spec => []TriedInTime
<1>1. Init => AgeBounded
  BY DEF Init, AgeBounded
<1>2. TypeOK /\ TypeOK' /\ AgeBounded /\ [Next]_vars => AgeBounded'
  BY AgeBoundedStep
<1>3. TypeOK /\ AgeBounded => TriedInTime
  BY AgesInTime
<1>. QED BY <1>1, <1>2, <1>3, TypeCorrect, PTL DEF Spec
===============================================================================
