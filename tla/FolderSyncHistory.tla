--------------------------- MODULE FolderSyncHistory ---------------------------
(***************************************************************************)
(* FolderSync with a record of what has happened in a behaviour.  The      *)
(* history variables constrain no step: HNext is Next, action by action,   *)
(* each with what it adds to the record.                                   *)
(*                                                                         *)
(* The record tells how far the promises of the protocol reach, for any    *)
(* number of processes and with every fault.  Three things break them, and *)
(* each is something that the code lets happen: two cycles under way at    *)
(* once, an acknowledgement that does not arrive, and a reuse of the wrong *)
(* bytes.                                                                  *)
(***************************************************************************)
EXTENDS FolderSync

VARIABLES
  overlapped,  \* whether a cycle has begun, or probed, beside another one
  unacked,     \* paths whose tombstone the initiator pruned in an
               \* acknowledgement that the responder was not sent
  misreused,   \* paths where reuseLocal committed other bytes than were listed
  removed      \* removed[c]: paths whose file cycle c has deleted at a side

history == <<overlapped, unacked, misreused, removed>>
hvars   == <<disk, trash, copies, index, cycle, edits, faults,
             overlapped, unacked, misreused, removed>>

HInit ==
  /\ Init
  /\ overlapped = FALSE
  /\ unacked    = {}
  /\ misreused  = {}
  /\ removed    = [c \in Cycles |-> {}]

-------------------------------------------------------------------------------
(* What a step adds to the record. *)

RecordStart(c) ==
  /\ overlapped' = (overlapped \/ \E d \in Cycles : cycle[d].step # "idle")
  /\ removed' = [removed EXCEPT ![c] = {}]
  /\ UNCHANGED <<unacked, misreused>>

RecordReuse(c, outcome) ==
  /\ misreused' = IF outcome = "done" /\ LocalEntry(c).hash # RemoteEntry(c).hash
                  THEN misreused \cup {cycle[c].at} ELSE misreused
  /\ UNCHANGED <<overlapped, unacked, removed>>

RecordDelete(c) ==
  /\ removed' = [removed EXCEPT ![c] = @ \cup {cycle[c].at}]
  /\ UNCHANGED <<overlapped, unacked, misreused>>

RecordAbort(c) ==
  /\ unacked' = IF cycle[c].step = "ackPeer"
                THEN unacked \cup {x \in Paths : cycle[c].local[x].deleted}
                ELSE unacked
  /\ UNCHANGED <<overlapped, misreused, removed>>

HNext ==
  \/ \E p \in Peers, x \in Paths, h \in Contents : UserWrite(p, x, h) /\ UNCHANGED history
  \/ \E p \in Peers, x \in Paths : UserDelete(p, x) /\ UNCHANGED history
  \/ \E c \in Cycles : ProbeResponder(c) /\ RecordStart(c)
  \/ \E c \in Cycles : Begin(c) /\ RecordStart(c)
  \/ \E c \in Cycles : ScanLocal(c) /\ UNCHANGED history
  \/ \E c \in Cycles, outcome \in Outcomes : List(c, outcome) /\ UNCHANGED history
  \/ \E c \in Cycles, outcome \in Outcomes : ReuseOnPeer(c, outcome) /\ UNCHANGED history
  \/ \E c \in Cycles, outcome \in Outcomes : ReuseLocal(c, outcome) /\ RecordReuse(c, outcome)
  \/ \E c \in Cycles : NoReuse(c) /\ UNCHANGED history
  \/ \E c \in Cycles : ReuseDone(c) /\ UNCHANGED history
  \/ \E c \in Cycles : Skip(c) /\ UNCHANGED history
  \/ \E c \in Cycles, outcome \in Outcomes : Push(c, outcome) /\ UNCHANGED history
  \/ \E c \in Cycles, outcome \in Outcomes : Pull(c, outcome) /\ UNCHANGED history
  \/ \E c \in Cycles, outcome \in Outcomes : Delete(c, outcome) /\ RecordDelete(c)
  \/ \E c \in Cycles : MergeLocal(c) /\ UNCHANGED history
  \/ \E c \in Cycles, outcome \in Outcomes : MergePeer(c, outcome) /\ UNCHANGED history
  \/ \E c \in Cycles : ConflictCheck(c) /\ UNCHANGED history
  \/ \E c \in Cycles, outcome \in Outcomes : ConflictPreserve(c, outcome) /\ UNCHANGED history
  \/ \E c \in Cycles, outcome \in Outcomes : ConflictPush(c, outcome) /\ UNCHANGED history
  \/ \E c \in Cycles : Fail(c) /\ UNCHANGED history
  \/ \E c \in Cycles : Abort(c) /\ RecordAbort(c)
  \/ \E c \in Cycles : ApplyDone(c) /\ UNCHANGED history
  \/ \E c \in Cycles : AckLocal(c) /\ UNCHANGED history
  \/ \E c \in Cycles, outcome \in Outcomes : AckPeer(c, outcome) /\ UNCHANGED history

HSpec == HInit /\ [][HNext]_hvars
HFairSpec == HSpec /\ Fairness

-------------------------------------------------------------------------------
(* Properties. *)

\* Paths on which nothing has happened that is known to break the protocol.
Undisturbed == IF overlapped THEN {} ELSE Paths \ unacked

\* When a cycle comes to acknowledge, the two indexes are causally ordered on
\* every undisturbed path, and one of them holds it as deleted only if the other
\* does, at the very same version: what acknowledgeCycle records of the peer
\* ("caught up to every entry this installation now holds") is so.
AckedEntriesAgree ==
  \A c \in Cycles : cycle[c].step = "ack" =>
    \A x \in Undisturbed :
      LET mine == index[Initiator][x]  theirs == index[Responder][x] IN
      /\ Compare(mine.version, theirs.version) # "concurrent"
      /\ mine.deleted = theirs.deleted
      /\ mine.deleted => mine.version = theirs.version

\* PrunedWhenShared holds until two cycles overlap or an acknowledgement of the
\* tombstone is lost, and on other paths after that loss, too.
PruningsShared == [][\A x \in Undisturbed' : PrunedShared(x)]_hvars

\* So does FreshChangeNotDominated.
FreshChangesNew == [][\A x \in Undisturbed' : FreshNotDominated(x)]_hvars

\* EqualVersionsSameContent holds of undisturbed paths with writers on both
\* sides until reuseLocal takes the wrong bytes for the path.
OneVersionOneContent == \A x \in Undisturbed \ misreused : SameContent(x)

\* The deletion threshold bounds what a whole cycle deletes at the two sides: no
\* more files than the limit for the paths that its two snapshots list, whatever
\* other processes, users and faults do between its plan and its end.
DeletesLimited ==
  \A c \in Cycles : cycle[c].step \in {"reuse", "apply", "ack"} =>
    LET known == {x \in Paths : cycle[c].local[x] # Absent \/ cycle[c].remote[x] # Absent}
    IN  Cardinality(removed[c]) <= DeleteLimit(Cardinality(known))

===============================================================================
