-------------------------------- MODULE Daemon --------------------------------
(***************************************************************************)
(* The daemon's loop (commands/run.go): what starts a cycle, how a failed  *)
(* one backs its peer off, and when it is tried again.  A cycle runs in    *)
(* the loop itself, so nothing else is handled before all its folders have *)
(* ended; a timer that expires meanwhile stays due.  Of the channels that  *)
(* are ready the loop picks any.                                           *)
(*                                                                         *)
(* Time passes in ticks, and only while the loop has nothing to do or a    *)
(* cycle is waiting for peers.  What a cycle does to a folder is in        *)
(* FolderSync: here it brings a change over or fails.                      *)
(***************************************************************************)
EXTENDS Integers, FiniteSets, SequencesExt

CONSTANTS
  Folders,      \* a sequence: the folders as cycleFolderNames sorts them
  Peers,
  PeerOf,       \* PeerOf[f]: the peer that folder f is bound to
  Pending,      \* peers not contacted before
  Debounce, FullScan, WatchRetry, Poll,  \* runDebounce, ...: in ticks
  BackoffStart, BackoffMax, JitterRatio,
  MaxCycle,     \* bound: ticks a cycle takes
  MaxChanges,   \* bound: changes of files in a behaviour
  MaxFaults     \* bound: outages, failures of a folder's own, lost watches, changed
                \* bindings and restarts in a behaviour

FolderSet == Range(Folders)

Off == -1  \* a timer that is stopped

ASSUME DaemonAssumption ==
  /\ Folders \in Seq(FolderSet)
  /\ PeerOf \in [FolderSet -> Peers] /\ Pending \subseteq Peers
  /\ {Debounce, FullScan, WatchRetry, Poll, BackoffStart, JitterRatio} \subseteq Nat \ {0}
  /\ BackoffMax \in Nat /\ BackoffStart <= BackoffMax
  /\ {MaxCycle, MaxChanges, MaxFaults} \subseteq Nat

VARIABLES
  owed,       \* folders with a change that the peer has not got
  up,         \* peers that answer
  active,     \* peers whose key is known
  bound,      \* folders bound in the configuration file
  events,     \* events the watcher holds for the loop: "file", "config"
  phase,      \* "stopped", "cycle" or "loop"
  cycle,      \* the cycle under way
  cfg,        \* the bound folders as the loop knows them
  dirty, debounce, retry,  \* a mark and two timers
  due, full, watch, poll,  \* tickers that have ticked, and ticks to the next
  delay, wait,             \* backoff per peer: the last delay, and what is left
  reachable,  \* peers that answered the last probe
  probe,      \* the probe of the peers under way, with its answers
  watched,    \* folders whose watches are all set
  changes, faults,  \* so far
  failed,     \* history: folders whose last cycle failed
  age         \* history: ticks that a change could have been tried and was not, to InTime

environment == <<owed, up, active, bound, watched, changes, faults, failed, age>>
timers      == <<debounce, retry, due, full, watch, poll>>
backoff     == <<delay, wait>>
vars == <<owed, up, active, bound, events, phase, cycle, cfg, dirty, debounce, retry,
          due, full, watch, poll, delay, wait, reachable, probe, watched, changes, faults, failed, age>>

NoProbe == [state |-> "none", asked |-> {}, answered |-> {}]
NoCycle == [startup |-> FALSE, tried |-> {}, taken |-> {}, shaky |-> {}, left |-> 0]

MaxWait == BackoffMax + BackoffMax \div JitterRatio

\* A full scan after the longest backoff, and the cycles that delay both.
InTime == FullScan + MaxWait + 2 * MaxCycle

TypeOK ==
  /\ owed \subseteq FolderSet /\ bound \subseteq FolderSet /\ cfg \subseteq FolderSet
  /\ watched \subseteq FolderSet
  /\ up \subseteq Peers /\ active \subseteq Peers /\ reachable \subseteq Peers
  /\ events \subseteq {"file", "config"}
  /\ phase \in {"stopped", "cycle", "loop"}
  /\ cycle \in [startup : BOOLEAN, tried : SUBSET FolderSet, taken : SUBSET FolderSet,
                shaky : SUBSET Peers, left : 0 .. MaxCycle]
  /\ dirty \in BOOLEAN
  /\ debounce \in {Off} \cup 0 .. Debounce
  /\ retry \in {Off} \cup 0 .. MaxWait
  /\ due \subseteq {"full", "watch", "poll"}
  /\ full \in 1 .. FullScan /\ watch \in 1 .. WatchRetry /\ poll \in 1 .. Poll
  /\ delay \in [Peers -> 0 .. BackoffMax]
  /\ wait \in [Peers -> 0 .. MaxWait]
  /\ probe \in [state : {"none", "sent", "answered"}, asked : SUBSET Peers, answered : SUBSET Peers]
  /\ changes \in 0 .. MaxChanges /\ faults \in 0 .. MaxFaults
  /\ failed \subseteq FolderSet
  /\ age \in [FolderSet -> 0 .. InTime + 1]

NoBackoff == [p \in Peers |-> 0]

Init ==
  /\ owed = {} /\ up = Peers /\ active = Peers \ Pending /\ bound = FolderSet
  /\ events = {} /\ phase = "stopped" /\ cycle = NoCycle /\ cfg = {}
  /\ dirty = FALSE /\ debounce = Off /\ retry = Off
  /\ due = {} /\ full = FullScan /\ watch = WatchRetry /\ poll = Poll
  /\ delay = NoBackoff /\ wait = NoBackoff
  /\ reachable = {} /\ probe = NoProbe /\ watched = {}
  /\ changes = 0 /\ faults = 0
  /\ failed = {} /\ age = [f \in FolderSet |-> 0]

Fault == faults < MaxFaults /\ faults' = faults + 1

-------------------------------------------------------------------------------
(* The environment. *)

\* A file changes here, with an event if it is watched, or at the peer.
Change(f, here) ==
  /\ changes < MaxChanges /\ changes' = changes + 1
  /\ owed' = owed \cup {f}
  /\ events' = IF here /\ f \in watched /\ phase # "stopped" THEN events \cup {"file"} ELSE events
  /\ UNCHANGED <<up, active, bound, phase, cycle, cfg, dirty, timers, backoff,
                 reachable, probe, watched, faults, failed, age>>

\* Peers go down, all of them when this machine is offline, and come back.
Outage(ps) ==
  /\ ps # {} /\ ps \subseteq up
  /\ Fault
  /\ up' = up \ ps
  /\ cycle' = [cycle EXCEPT !.shaky = IF phase = "cycle" THEN @ \cup ps ELSE @]
  /\ UNCHANGED <<owed, active, bound, events, phase, cfg, dirty, timers, backoff,
                 reachable, probe, watched, changes, failed, age>>

Return(p) ==
  /\ p \notin up
  /\ up' = up \cup {p}
  /\ UNCHANGED <<owed, active, bound, events, phase, cycle, cfg, dirty, timers, backoff,
                 reachable, probe, watched, changes, faults, failed, age>>

\* A configuration transaction binds f or dissolves its binding.
Rebind(f) ==
  /\ Fault
  /\ bound' = IF f \in bound THEN bound \ {f} ELSE bound \cup {f}
  /\ events' = IF phase = "stopped" THEN events ELSE events \cup {"config"}
  /\ age' = [age EXCEPT ![f] = 0]
  /\ UNCHANGED <<owed, up, active, phase, cycle, cfg, dirty, timers, backoff,
                 reachable, probe, watched, changes, failed>>

\* A directory is created and cannot be watched: its folder becomes scan-only.
WatchLost(f) ==
  /\ phase # "stopped"
  /\ f \in watched
  /\ Fault
  /\ watched' = watched \ {f}
  /\ UNCHANGED <<owed, up, active, bound, events, phase, cycle, cfg, dirty, timers, backoff,
                 reachable, probe, changes, failed, age>>

-------------------------------------------------------------------------------
(* Cycles. *)

PeersOf(files) == {PeerOf[f] : f \in files}

\* executeCycle begins, with the configuration file as it is now.  The folders of a
\* peer that is backing off are skipped.
StartCycle(startup, waiting) ==
  LET tried == {f \in bound : waiting[PeerOf[f]] = 0} IN
  /\ phase' = "cycle"
  /\ \E length \in 0 .. MaxCycle :
       cycle' = [startup |-> startup, tried |-> tried, taken |-> tried \cap owed,
                 shaky |-> Peers \ up, left |-> length]
  /\ owed' = owed \ tried
  /\ age' = [f \in FolderSet |-> IF f \in tried THEN 0 ELSE age[f]]

\* Slip: the delay keeps doubling.
BackoffUncapped(d) == IF d = 0 THEN BackoffStart ELSE d * 2

\* peerBackoff.Fail
Backoff(d) ==
  CASE d = 0 -> BackoffStart
    [] d # 0 /\ d < BackoffMax -> IF d * 2 < BackoffMax THEN d * 2 ELSE BackoffMax
    [] OTHER -> d

Jitters(d) == 0 .. (d \div JitterRatio)

\* The delays after the folders of a cycle, in their order: a success forgets its
\* peer's failures, those of other folders too.
Delays(tried, done, silent) ==
  LET outcome(delays, f) ==
        CASE f \notin tried \ silent -> delays
          [] f \in done              -> [delays EXCEPT ![PeerOf[f]] = 0]
          [] OTHER                   -> [delays EXCEPT ![PeerOf[f]] = Backoff(@)]
  IN FoldLeft(outcome, delay, Folders)

\* Slip: the latest of the peers.
NextLatest(waiting) ==
  LET waits == {waiting[p] : p \in Peers} \ {0}
  IN IF waits = {} THEN Off ELSE CHOOSE w \in waits : \A v \in waits : v <= w

\* peerBackoff.Next
NextRetry(waiting) ==
  LET waits == {waiting[p] : p \in Peers} \ {0}
  IN IF waits = {} THEN Off ELSE CHOOSE w \in waits : \A v \in waits : w <= v

\* All folders have ended.  One comes through only if its peer answers, and fails
\* if its peer did not answer all along, or for reasons of its own.  A folder whose
\* peer could not be activated has no outcome.
FinishCycle ==
  /\ phase = "cycle" /\ cycle.left = 0
  /\ \E done \in SUBSET {f \in cycle.tried : PeerOf[f] \in up} :
       LET unsuccessful == cycle.tried \ done
           silent == {f \in unsuccessful : PeerOf[f] \notin active}
           own    == {f \in unsuccessful : PeerOf[f] \notin cycle.shaky}
           delays == Delays(cycle.tried, done, silent)
           backed == {p \in PeersOf(unsuccessful \ silent) : delays[p] # 0}
       IN
       /\ faults + Cardinality(own) <= MaxFaults
       /\ faults' = faults + Cardinality(own)
       /\ owed' = owed \cup (cycle.taken \ done)
       /\ failed' = (failed \ cycle.tried) \cup (unsuccessful \ silent)
       /\ active' = active \cup PeersOf(done)
       /\ delay' = delays
       /\ \E jitter \in [backed -> 0 .. (BackoffMax \div JitterRatio)] :
            /\ \A p \in backed : jitter[p] \in Jitters(delays[p])
            /\ wait' = [p \in Peers |->
                 IF p \in backed THEN delays[p] + jitter[p]
                 ELSE IF delays[p] = 0 THEN 0 ELSE wait[p]]
       /\ retry' = NextRetry(wait')
  /\ phase' = "loop"
  /\ cycle' = NoCycle
  /\ reachable' = IF cycle.startup THEN {p \in up : p \in active'} \cap PeersOf(cfg) ELSE reachable
  /\ UNCHANGED <<up, bound, events, cfg, dirty, debounce, due, full, watch, poll,
                 probe, watched, changes, age>>
-------------------------------------------------------------------------------
(* The process. *)

\* Run, or systemd after a failure: all folders are watched, then a cycle runs.
Start ==
  /\ phase = "stopped"
  /\ cfg' = bound /\ watched' = FolderSet
  /\ StartCycle(TRUE, wait)
  /\ UNCHANGED <<up, active, bound, failed, events, dirty, timers, backoff, reachable, probe, changes, faults>>

\* The daemon is stopped, or stops because a folder's registration changed or the
\* configuration is invalid.  All it had in memory is gone.
Stop ==
  /\ phase # "stopped"
  /\ Fault
  /\ phase' = "stopped" /\ cycle' = NoCycle
  /\ owed' = owed \cup cycle.taken
  /\ events' = {} /\ cfg' = {} /\ dirty' = FALSE /\ debounce' = Off /\ retry' = Off
  /\ due' = {} /\ full' = FullScan /\ watch' = WatchRetry /\ poll' = Poll
  /\ delay' = NoBackoff /\ wait' = NoBackoff /\ reachable' = {} /\ probe' = NoProbe
  /\ watched' = {} /\ failed' = {} /\ age' = [f \in FolderSet |-> 0]
  /\ UNCHANGED <<up, active, bound, changes>>

-------------------------------------------------------------------------------
(* The loop's channels. *)

InLoop == phase = "loop"

MarkDirty == dirty' = TRUE /\ debounce' = Debounce

\* The configuration file changed; only a binding makes the tree dirty.
ConfigEvent ==
  /\ InLoop /\ "config" \in events
  /\ events' = events \ {"config"}
  /\ cfg' = bound
  /\ IF bound # cfg THEN MarkDirty ELSE UNCHANGED <<dirty, debounce>>
  /\ UNCHANGED <<environment, phase, cycle, retry, due, full, watch, poll, backoff, reachable, probe>>

\* A file event, or an error of the watcher, which may have lost some.
FileEvent ==
  /\ InLoop /\ "file" \in events
  /\ events' = events \ {"file"}
  /\ MarkDirty
  /\ UNCHANGED <<environment, phase, cycle, cfg, retry, due, full, watch, poll, backoff,
                 reachable, probe>>

DebounceDue ==
  /\ InLoop /\ debounce = 0
  /\ debounce' = Off /\ dirty' = FALSE
  /\ StartCycle(FALSE, wait)
  /\ UNCHANGED <<up, active, bound, failed, events, cfg, retry, due, full, watch, poll, backoff,
                 reachable, probe, watched, changes, faults>>

\* Slip: the full scan is left out when nothing was noticed.
FullScanIfDirty == dirty
\* The full scan runs whether or not anything was noticed.
FullScanWanted == TRUE

FullScanDue ==
  /\ InLoop /\ "full" \in due
  /\ due' = due \ {"full"}
  /\ IF FullScanWanted THEN StartCycle(FALSE, wait) ELSE UNCHANGED <<phase, cycle, owed, age>>
  /\ UNCHANGED <<up, active, bound, failed, events, cfg, dirty, debounce, retry, full, watch, poll,
                 backoff, reachable, probe, watched, changes, faults>>

RetryDue ==
  /\ InLoop /\ retry = 0
  /\ retry' = Off
  /\ StartCycle(FALSE, wait)
  /\ UNCHANGED <<up, active, bound, failed, events, cfg, dirty, debounce, due, full, watch, poll,
                 backoff, reachable, probe, watched, changes, faults>>

\* retryWatchConditions: some watches can be set again.
WatchRetryDue ==
  /\ InLoop /\ "watch" \in due
  /\ due' = due \ {"watch"}
  /\ \E restored \in SUBSET (FolderSet \ watched) : watched' = watched \cup restored
  /\ UNCHANGED <<owed, up, active, bound, events, phase, cycle, cfg, dirty, debounce, retry,
                 full, watch, poll, backoff, reachable, probe, changes, faults, failed, age>>

\* One probe at a time.
PollDue ==
  /\ InLoop /\ "poll" \in due
  /\ due' = due \ {"poll"}
  /\ probe' = IF probe.state = "none"
              THEN [state |-> "sent", asked |-> PeersOf(cfg), answered |-> {}] ELSE probe
  /\ UNCHANGED <<environment, events, phase, cycle, cfg, dirty, debounce, retry, full, watch,
                 poll, backoff, reachable>>

\* probePeers, beside the loop; a pending peer does not count as reachable.
Answer ==
  /\ probe.state = "sent"
  /\ probe' = [probe EXCEPT !.state = "answered", !.answered = probe.asked \cap up \cap active]
  /\ UNCHANGED <<environment, events, phase, cycle, cfg, dirty, timers, backoff, reachable>>

Forgotten(backedOff, ps) == [p \in Peers |-> IF p \in ps THEN 0 ELSE backedOff[p]]

\* applyReachability: a peer that answers again is tried at once.
Probed ==
  LET reconnected == probe.answered \ reachable IN
  /\ InLoop /\ probe.state = "answered"
  /\ probe' = NoProbe
  /\ reachable' = (reachable \ probe.asked) \cup probe.answered
  /\ delay' = Forgotten(delay, reconnected)
  /\ wait' = Forgotten(wait, reconnected)
  /\ IF reconnected # {} THEN StartCycle(FALSE, wait') ELSE UNCHANGED <<phase, cycle, owed, age>>
  /\ UNCHANGED <<up, active, bound, failed, events, cfg, dirty, timers, watched, changes, faults>>

-------------------------------------------------------------------------------
(* Time. *)

Ready ==
  \/ events # {} \/ due # {} \/ debounce = 0 \/ retry = 0 \/ probe.state = "answered"

Less(t) == IF t > 0 THEN t - 1 ELSE t
Ticked(t, period) == IF t = 1 THEN period ELSE t - 1

Tick ==
  /\ probe.state # "sent"
  /\ \/ phase = "loop" /\ ~Ready
     \/ phase = "cycle" /\ cycle.left > 0
  /\ cycle' = [cycle EXCEPT !.left = Less(@)]
  /\ debounce' = Less(debounce) /\ retry' = Less(retry)
  /\ wait' = [p \in Peers |-> Less(wait[p])]
  /\ full' = Ticked(full, FullScan) /\ watch' = Ticked(watch, WatchRetry) /\ poll' = Ticked(poll, Poll)
  /\ due' = due \cup (IF full = 1 THEN {"full"} ELSE {}) \cup (IF watch = 1 THEN {"watch"} ELSE {})
                 \cup (IF poll = 1 THEN {"poll"} ELSE {})
  /\ age' = [f \in FolderSet |->
       IF f \in owed \cap bound /\ PeerOf[f] \in up
       THEN IF age[f] <= InTime THEN age[f] + 1 ELSE age[f] ELSE 0]
  /\ UNCHANGED <<owed, up, active, bound, failed, events, phase, cfg, dirty, delay, reachable,
                 probe, watched, changes, faults>>

-------------------------------------------------------------------------------
Daemon ==
  \/ Start \/ FinishCycle \/ ConfigEvent \/ FileEvent \/ DebounceDue \/ FullScanDue
  \/ RetryDue \/ WatchRetryDue \/ PollDue \/ Answer \/ Probed

Next ==
  \/ \E f \in FolderSet, here \in BOOLEAN : Change(f, here)
  \/ \E ps \in SUBSET Peers : Outage(ps)
  \/ \E p \in Peers : Return(p)
  \/ \E f \in FolderSet : Rebind(f) \/ WatchLost(f)
  \/ Daemon \/ Stop \/ Tick

Spec == Init /\ [][Next]_vars

\* The daemon runs, and time passes.
FairSpec == Spec /\ WF_vars(Daemon) /\ WF_vars(Tick)

-------------------------------------------------------------------------------
(* Properties. *)

\* "Next returns the wait until the earliest still-backed-off peer is ready again"
\* (backoff.go): while the loop waits, the retry timer is due no later than the
\* first of the peers that are backing off, whatever cycles came in between.
BackoffCovered ==
  phase = "loop" => \A p \in Peers : wait[p] > 0 => retry \in 0 .. wait[p]

\* The full scan is the net under everything the daemon may have missed: a change
\* whose peer answers is tried within a full scan after the longest backoff and the
\* cycles that delay both, whether or not it was noticed, skipped or failed before.
TriedInTime ==
  \A f \in FolderSet : age[f] <= InTime

\* Once its peer stays up, a change gets there.
ChangesArrive ==
  \A f \in FolderSet :
    <>[](PeerOf[f] \in up /\ f \in bound) => []<>(f \notin owed \cup cycle.taken)

\* "retry timer not armed for a failed peer" (run_test.go): while the loop waits, a
\* folder that failed is going to be tried again by the retry timer.
FailedIsRetried ==
  phase = "loop" => \A f \in failed \cap bound : retry # Off
==============================================================================
