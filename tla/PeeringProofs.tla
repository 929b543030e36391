----------------------------- MODULE PeeringProofs -----------------------------
(***************************************************************************)
(* Theorems about Peering, for any number of installations and of commands *)
(* at work beside each other.                                              *)
(***************************************************************************)
EXTENDS Peering, TLAPS

\* A command is about two installations.
Named == \A w \in Workers : ~At(w, "idle") =>
           job[w].at \in Nodes /\ job[w].to \in Nodes /\ job[w].at # job[w].to

TypeInv == TypeOK /\ Named

\* A command that is called alone is the only one at work about its two.
Alone == \A w \in Workers : job[w].alone =>
           ~At(w, "idle") /\ \A v \in Workers \ {w} : ~About(v, job[w].at, job[w].to)

\* Between a command's look at a key and the grant it makes for it, the key is held.
KeysHeld(w) == LET n == job[w].at  m == job[w].to IN
  /\ job[w].step \in {"call", "grant", "regrant", "last", "keepgrant"}
       => peers[n][m].key \/ <<n, m>> \in loose
  /\ job[w].step \in {"theirgrant", "back", "regrant"}
       => peers[m][n].key \/ <<m, n>> \in loose

\* What a command that is alone may take the key of is not let in.
NotLetIn(w) == LET n == job[w].at  m == job[w].to IN
  /\ At(w, "theirgrant") /\ ~job[w].prev.key => n \notin grant[m] \/ <<m, n>> \in loose
  /\ At(w, "keep") => peers[n][m] = job[w].before.peers[n][m]
  /\ At(w, "keepgrant") /\ ~job[w].before.peers[n][m].key => m \notin grant[n] \/ <<n, m>> \in loose
  /\ At(w, "drop") => m \notin grant[n] \/ <<n, m>> \in loose

\* How far a command that is alone has come in proving both directions.
LinkSoFar(w) == LET n == job[w].at  m == job[w].to IN
  /\ job[w].step \in {"call", "grant", "route", "back", "regrant", "last"}
       => peers[n][m].key /\ peers[n][m].addr
  /\ job[w].step \in {"back", "regrant", "last"} => peers[m][n].key /\ peers[m][n].addr
  /\ At(w, "last") => n \in grant[m]

\* A dial or an activation that is undone completely if it fails.
Undoable(w) == LET j == job[w] IN
  /\ j.alone /\ j.op \in {"dial", "activate"}
  /\ j.op = "dial" => ~j.before.peers[j.to][j.at].key /\ ~j.before.peers[j.to][j.at].addr

\* What it has done to the entry and the grant here: every way out leads through
\* steps that take it back.
Here(w) == LET j == job[w]  mine == peers[j.at][j.to]  was == j.before.peers[j.at][j.to] IN
  /\ ~was.key /\ (was.addr <=> j.existed)
  /\ j.op = "activate" \/ j.step = "first" => j.existed
  /\ j.step \in {"probe", "invite", "pend"} => ~mine.key /\ (mine.addr <=> was.addr)
  /\ j.step \in {"first", "theirs", "theirgrant", "hello", "pin", "ungrant", "withdraw", "unpend"}
       => ~mine.key /\ mine.addr
  /\ j.step \in {"grant", "route", "back", "regrant", "last", "unroute", "unpin"} => mine.addr
  /\ j.step \notin {"unpin", "ungrant", "withdraw", "unpend"} => j.failed = {}
  /\ /\ j.step \notin {"route", "back", "regrant", "last", "unroute", "unpin", "ungrant"}
     /\ "ungrant" \notin j.failed
     => (j.to \in grant[j.at] => j.to \in j.before.grant[j.at])

Early == {"first", "probe", "invite", "pend", "theirs"}
Late  == {"hello", "pin", "grant", "route", "back", "regrant", "last",
          "unroute", "unpin", "ungrant"}

\* And to those over there, as long as nothing is left there.
There(w) == LET j == job[w]  theirs == peers[j.to][j.at]  was == j.before.peers[j.to][j.at] IN
  /\ j.op = "activate" =>
       /\ j.step \in Late
       /\ j.step \in {"hello", "pin", "grant", "route", "unpin", "ungrant"} /\ ~LeftThere(j)
            => (theirs.key <=> was.key) /\ (theirs.addr <=> was.addr)
       /\ j.step \in {"back", "regrant", "unroute"}
            => (j.prev.addr <=> was.addr) /\ (theirs.key <=> was.key) /\ theirs.addr
       /\ j.step # "last" /\ ~LeftThere(j) => (j.at \in grant[j.to] => j.at \in j.before.grant[j.to])
  /\ j.op = "dial" =>
       /\ j.step \in Early \cup Late \cup {"theirgrant", "withdraw", "unpend"}
       /\ j.step \in Early \cup {"unpend"} /\ ~LeftThere(j) => ~theirs.key /\ ~theirs.addr
       /\ j.step = "theirgrant"
            => theirs.key /\ ~theirs.addr /\ ~j.prev.key /\ ~j.prev.addr
       /\ j.step \in Late \cup {"theirgrant"} => j.created
       /\ j.step = "withdraw" => j.created \/ (~theirs.key /\ ~theirs.addr)
       /\ /\ \/ j.step \in Early \cup {"theirgrant", "unpend"}
             \/ j.step = "withdraw" /\ ~j.created
          /\ ~LeftThere(j)
          => (j.at \in grant[j.to] => j.at \in j.before.grant[j.to])

\* What holds of each command.
Sound(w) ==
  /\ KeysHeld(w)
  /\ job[w].alone => NotLetIn(w) /\ LinkSoFar(w)
  /\ Undoable(w) => Here(w) /\ There(w)

PeeringInv == TypeInv /\ Alone /\ GrantsArePeers /\ \A w \in Workers : Sound(w)

-------------------------------------------------------------------------------
(* Entries, and what the helpers do to them, to the grants and to the jobs. *)

LEMMA EntryTyped ==
  /\ NoEntry \in Entry /\ ~NoEntry.key /\ ~NoEntry.addr
  /\ \A e \in Entry : e.key \in BOOLEAN /\ e.addr \in BOOLEAN
  /\ \A e \in Entry : e = [key |-> e.key, addr |-> e.addr]
  /\ \A e \in Entry : e = NoEntry <=> ~e.key /\ ~e.addr
<1>1. NoEntry \in Entry /\ ~NoEntry.key /\ ~NoEntry.addr
  BY DEF NoEntry, Entry
<1>2. \A e \in Entry : e.key \in BOOLEAN /\ e.addr \in BOOLEAN
  BY DEF Entry
<1>3. \A e \in Entry : e = [key |-> e.key, addr |-> e.addr]
  BY DEF Entry
<1>4. ASSUME NEW e \in Entry, ~e.key, ~e.addr PROVE e = NoEntry
  BY <1>2, <1>3, <1>4 DEF NoEntry
<1>. QED BY <1>1, <1>2, <1>3, <1>4

LEMMA EntriesEqual ==
  ASSUME NEW e \in Entry, NEW f \in Entry, e.key <=> f.key, e.addr <=> f.addr
  PROVE  e = f
<1>1. e.key = f.key /\ e.addr = f.addr
  BY EntryTyped
<1>. QED BY <1>1, EntryTyped

LEMMA SetsOne ==
  ASSUME TypeOK, NEW n \in Nodes, NEW m \in Nodes, NEW e \in Entry, Sets(n, m, e)
  PROVE  /\ peers' \in [Nodes -> [Nodes -> Entry]]
         /\ peers'[n][m] = e
         /\ \A x, y \in Nodes : x # n \/ y # m => peers'[x][y] = peers[x][y]
BY DEF TypeOK, Sets

LEMMA GrantsOne ==
  ASSUME TypeOK, NEW n \in Nodes, NEW m \in Nodes, Grants(n, m)
  PROVE  /\ grant' \in [Nodes -> SUBSET Nodes]
         /\ m \in grant'[n]
         /\ \A x, y \in Nodes : x # n \/ y # m => (y \in grant'[x] <=> y \in grant[x])
BY DEF TypeOK, Grants

LEMMA RevokesOne ==
  ASSUME TypeOK, NEW n \in Nodes, NEW m \in Nodes, Revokes(n, m)
  PROVE  /\ grant' \in [Nodes -> SUBSET Nodes]
         /\ m \notin grant'[n]
         /\ \A x, y \in Nodes : x # n \/ y # m => (y \in grant'[x] <=> y \in grant[x])
BY DEF TypeOK, Revokes

LEMMA JobTyped ==
  ASSUME TypeOK, NEW w \in Workers
  PROVE  /\ job[w] \in Job /\ job[w].op \in Ops /\ job[w].step \in Steps
         /\ job[w].at \in Nodes \cup {NoNode} /\ job[w].to \in Nodes \cup {NoNode}
         /\ job[w].existed \in BOOLEAN /\ job[w].created \in BOOLEAN
         /\ job[w].alone \in BOOLEAN /\ job[w].failed \in SUBSET Steps
         /\ job[w].prev \in Entry
         /\ job[w].before.peers \in [Nodes -> [Nodes -> Entry]]
         /\ job[w].before.grant \in [Nodes -> SUBSET Nodes]
BY DEF TypeOK, Job

LEMMA NoJobTyped ==
  /\ NoJob \in Job /\ NoJob.step = "idle" /\ ~NoJob.alone
  /\ NoJob.at \notin Nodes /\ NoJob.to \notin Nodes
<1>1. NoJob.before \in [peers : [Nodes -> [Nodes -> Entry]], grant : [Nodes -> SUBSET Nodes]]
  BY EntryTyped DEF NoJob
<1>. QED BY <1>1, EntryTyped, PeeringAssumption DEF NoJob, Job, Ops, Steps

\* A command goes on, about the same installations and with the same memory.
Continues(w) ==
  LET j == job[w]  k == job'[w] IN
  /\ k.step # "idle" /\ k.op = j.op /\ k.at = j.at /\ k.to = j.to
  /\ k.existed = j.existed /\ k.before = j.before

\* What a step of a command at work does to the jobs.
Moves(w) ==
  /\ job' \in [Workers -> Job]
  /\ \A v \in Workers \ {w} : job'[v] = job[v]
  /\ \/ job'[w] = NoJob
     \/ Continues(w) /\ (job'[w].alone => job[w].alone)

Goes2(w, s) == /\ Continues(w) /\ job'[w].step = s
               /\ job'[w].created = job[w].created /\ job'[w].prev = job[w].prev
               /\ job'[w].alone = job[w].alone /\ job'[w].failed = job[w].failed

\* The same with a fault on record.
Falters2(w, s) == /\ Continues(w) /\ job'[w].step = s
                  /\ job'[w].created = job[w].created /\ job'[w].prev = job[w].prev
                  /\ job'[w].alone = job[w].alone
                  /\ job'[w].failed = job[w].failed \cup {job[w].step}

LEMMA EndMoves ==
  ASSUME TypeOK, NEW w \in Workers, Ends(w)
  PROVE  Moves(w) /\ job'[w] = NoJob
BY NoJobTyped DEF TypeOK, Ends, Moves

LEMMA JobMoves ==
  ASSUME TypeOK, NEW w \in Workers, NEW j \in Job, job' = [job EXCEPT ![w] = j],
         j.step # "idle", j.op = job[w].op, j.at = job[w].at, j.to = job[w].to,
         j.existed = job[w].existed, j.before = job[w].before,
         j.alone => job[w].alone
  PROVE  Moves(w) /\ Continues(w) /\ job'[w] = j
BY DEF TypeOK, Moves, Continues

LEMMA GoMoves ==
  ASSUME TypeOK, NEW w \in Workers, NEW s \in Steps \ {"idle"}, Goes(w, s)
  PROVE  Moves(w) /\ Goes2(w, s)
<1>. DEFINE j == [job[w] EXCEPT !.step = s]
<1>1. job[w] \in Job
  BY JobTyped
<1>2. /\ j \in Job /\ j.step = s /\ j.op = job[w].op /\ j.at = job[w].at /\ j.to = job[w].to
      /\ j.existed = job[w].existed /\ j.before = job[w].before /\ j.alone = job[w].alone
      /\ j.created = job[w].created /\ j.prev = job[w].prev /\ j.failed = job[w].failed
  BY <1>1 DEF Job
<1>3. job' = [job EXCEPT ![w] = j]
  BY DEF Goes, TypeOK
<1>. HIDE DEF j
<1>. QED BY <1>2, <1>3, JobMoves DEF Goes2

LEMMA FalterMoves ==
  ASSUME TypeOK, NEW w \in Workers, NEW s \in Steps, Falters(w, s)
  PROVE  /\ Moves(w) /\ faults' \in 0 .. MaxFaults
         /\ IF s = "idle" THEN job'[w] = NoJob ELSE Falters2(w, s)
<1>. DEFINE j == [job[w] EXCEPT !.step = s, !.failed = job[w].failed \cup {job[w].step}]
<1>1. faults' \in 0 .. MaxFaults
  BY PeeringAssumption DEF Falters, TypeOK
<1>2. CASE s = "idle"
  <2>1. Ends(w)
    BY <1>2 DEF Falters, Ends
  <2>. QED BY <1>1, <1>2, <2>1, EndMoves, NoJobTyped
<1>3. CASE s # "idle"
  <2>1. job[w] \in Job
    BY JobTyped
  <2>2. /\ j \in Job /\ j.step = s /\ j.op = job[w].op /\ j.at = job[w].at /\ j.to = job[w].to
        /\ j.existed = job[w].existed /\ j.before = job[w].before /\ j.alone = job[w].alone
        /\ j.created = job[w].created /\ j.prev = job[w].prev
        /\ j.failed = job[w].failed \cup {job[w].step}
    BY <2>1 DEF Job
  <2>3. job' = [job EXCEPT ![w] = j]
    BY <1>3 DEF Falters
  <2>4. j.step # "idle"
    BY <1>3, <2>2
  <2>. HIDE DEF j
  <2>5. Moves(w) /\ Continues(w) /\ job'[w] = j
    BY <2>2, <2>3, <2>4, JobMoves
  <2>. QED BY <1>1, <1>3, <2>2, <2>5 DEF Falters2
<1>. QED BY <1>2, <1>3

LEMMA UnwindMoves ==
  ASSUME TypeOK, NEW w \in Workers, Unwinds(w)
  PROVE  /\ Moves(w)
         /\ IF job[w].op \in {"reverify", "call"} THEN job'[w] = NoJob ELSE Goes2(w, "unpin")
<1>1. "unpin" \in Steps \ {"idle"}
  BY DEF Steps
<1>. QED BY <1>1, GoMoves, EndMoves DEF Unwinds

LEMMA WithdrawMoves ==
  ASSUME TypeOK, NEW w \in Workers, Withdraws(w)
  PROVE  /\ Moves(w)
         /\ IF job[w].op = "dial" THEN Goes2(w, "withdraw") ELSE job'[w] = NoJob
<1>1. "withdraw" \in Steps \ {"idle"}
  BY DEF Steps
<1>. QED BY <1>1, GoMoves, EndMoves DEF Withdraws

-------------------------------------------------------------------------------
(* What a step of a command at work must establish. *)

Counts == /\ commands' \in 0 .. MaxCommands /\ faults' \in 0 .. MaxFaults
          /\ loose' \subseteq Nodes \X Nodes /\ loose \subseteq loose'

Between(w, x, y) == LET n == job[w].at  m == job[w].to IN
                      (x = n /\ y = m) \/ (x = m /\ y = n)

\* It touches the entries and grants of its two installations only, and puts on record
\* that it takes away a key for which another command goes on to grant access.
Touches(w) ==
  /\ peers' \in [Nodes -> [Nodes -> Entry]] /\ grant' \in [Nodes -> SUBSET Nodes]
  /\ \A x, y \in Nodes : ~Between(w, x, y) =>
       peers'[x][y] = peers[x][y] /\ (y \in grant'[x] <=> y \in grant[x])
  /\ \A x, y \in Nodes : peers[x][y].key => \/ peers'[x][y].key \/ <<x, y>> \in loose'
                                             \/ ~\E v \in Workers \ {w} : Granting(v, x, y)

\* Whoever is let in after it has its key held, or will be shut out by it, or was let
\* in before for a reason that lasts.
Lets(w) ==
  \A x, y \in Nodes : y \in grant'[x] =>
    \/ <<x, y>> \in loose'
    \/ peers'[x][y].key
    \/ job'[w].step = "ungrant" /\ x = job[w].at /\ y = job[w].to
    \/ /\ y \in grant[x] /\ ~peers[x][y].key
       /\ ~(At(w, "ungrant") /\ x = job[w].at /\ y = job[w].to)

Good(w) == Moves(w) /\ Counts /\ Touches(w) /\ Lets(w) /\ Sound(w)'

LEMMA AtWork ==
  ASSUME PeeringInv, NEW w \in Workers, ~At(w, "idle")
  PROVE  /\ TypeOK /\ job[w].at \in Nodes /\ job[w].to \in Nodes /\ job[w].at # job[w].to
         /\ Sound(w)
BY DEF PeeringInv, TypeInv, Named

LEMMA QuietCounts ==
  ASSUME TypeOK, commands' = commands, faults' = faults \/ faults' \in 0 .. MaxFaults,
         loose' = loose \/ \E n, m \in Nodes : loose' = loose \cup {<<n, m>>}
  PROVE  Counts
BY DEF Counts, TypeOK

LEMMA LosesCounts ==
  ASSUME TypeOK, UNCHANGED <<commands, faults>>, NEW w, NEW n \in Nodes, NEW m \in Nodes,
         Loses(w, n, m) \/ LosesUncut(w, n, m)
  PROVE  Counts
BY DEF Counts, TypeOK, Loses, LosesUncut, Loosens

\* A key that is lost off the record is lost by a command that overtook nobody.
LEMMA LosesNoted ==
  ASSUME PeeringInv, NEW w \in Workers, ~At(w, "idle"), NEW n \in Nodes, NEW m \in Nodes,
         {n, m} = {job[w].at, job[w].to},
         Loses(w, n, m) \/ LosesUncut(w, n, m), peers[n][m].key, ~peers'[n][m].key,
         <<n, m>> \notin loose'
  PROVE  /\ ~\E v \in Workers \ {w} : Granting(v, n, m)
         /\ LosesUncut(w, n, m) => job[w].alone
<1>1. CASE Loses(w, n, m)
  BY <1>1 DEF Loses, LosesUncut, Loosens
<1>2. CASE LosesUncut(w, n, m)
  <2>1. job[w].alone
    BY <1>2 DEF LosesUncut, Loosens
  <2>2. ASSUME NEW v \in Workers \ {w}, Granting(v, n, m) PROVE FALSE
    BY <2>1, <2>2 DEF PeeringInv, Alone, About, Granting
  <2>. QED BY <2>1, <2>2
<1>. QED BY <1>1, <1>2

LEMMA TouchesNothing ==
  ASSUME TypeOK, NEW w \in Workers, UNCHANGED <<peers, grant>>
  PROVE  Touches(w) /\ (~At(w, "ungrant") => Lets(w))
BY DEF TypeOK, Touches, Lets

LEMMA EndSound ==
  ASSUME NEW w \in Workers, job'[w] = NoJob
  PROVE  Sound(w)'
BY NoJobTyped DEF Sound, KeysHeld, Undoable

\* A step that only moves the command on.
LEMMA MoveGood ==
  ASSUME PeeringInv, NEW w \in Workers, ~At(w, "idle"), ~At(w, "ungrant"),
         UNCHANGED <<peers, grant>>, Quiet, Moves(w), job'[w] = NoJob \/ Sound(w)'
  PROVE  Good(w)
<1>1. TypeOK
  BY AtWork
<1>. QED BY <1>1, TouchesNothing, QuietCounts, EndSound DEF Good, Quiet

LEMMA ProbeGood ==
  ASSUME PeeringInv, NEW w \in Workers, Probe(w)
  PROVE  Good(w)
<1>1. At(w, "probe") /\ TypeOK /\ Sound(w)
  BY AtWork DEF Probe, At
<1>2. CASE Goes(w, "pend") \/ Goes(w, "invite")
  <2>1. Moves(w) /\ (Goes2(w, "pend") \/ Goes2(w, "invite"))
    BY <1>1, <1>2, GoMoves DEF Steps
  <2>2. peers' = peers /\ grant' = grant /\ loose' = loose
    BY DEF Probe, Quiet
  <2>3. Sound(w)'
    BY <1>1, <2>1, <2>2 DEF At, Goes2, Continues, Sound, KeysHeld, NotLetIn, LinkSoFar, Undoable,
                            Here, There, LeftThere, Early, Late
  <2>. QED BY <1>1, <2>1, <2>3, MoveGood DEF Probe, At
<1>3. CASE Ends(w)
  BY <1>1, <1>3, EndMoves, MoveGood DEF Probe, At
<1>. QED BY <1>2, <1>3 DEF Probe

LEMMA HelloGood ==
  ASSUME PeeringInv, NEW w \in Workers, Hello(w)
  PROVE  Good(w)
<1>1. At(w, "first") \/ At(w, "hello")
  BY DEF Hello
<1>2. /\ TypeOK /\ Sound(w) /\ job[w].at \in Nodes /\ job[w].to \in Nodes
      /\ peers' = peers /\ grant' = grant /\ loose' = loose
  BY <1>1, AtWork DEF At, Hello, Quiet
<1>3. CASE Serves(job[w].to, job[w].at) /\ Goes(w, "pin")
  <2>1. Moves(w) /\ Goes2(w, "pin")
    BY <1>2, <1>3, GoMoves DEF Steps
  <2>3. Sound(w)'
    BY <1>1, <1>2, <1>3, <2>1
       DEF Serves, At, Goes2, Continues, Sound, KeysHeld, NotLetIn, LinkSoFar, Undoable,
           Here, There, LeftThere, Early, Late
  <2>. QED BY <1>1, <2>1, <2>3, MoveGood DEF Hello, At
<1>4. CASE At(w, "first") /\ job[w].op = "dial" /\ Goes(w, "probe")
  <2>1. Moves(w) /\ Goes2(w, "probe")
    BY <1>2, <1>4, GoMoves DEF Steps
  <2>3. Sound(w)'
    BY <1>2, <1>4, <2>1
       DEF At, Goes2, Continues, Sound, KeysHeld, NotLetIn, LinkSoFar, Undoable,
           Here, There, LeftThere, Early, Late
  <2>. QED BY <1>1, <2>1, <2>3, MoveGood DEF Hello, At
<1>5. CASE Withdraws(w)
  <2>1. Moves(w) /\ IF job[w].op = "dial" THEN Goes2(w, "withdraw") ELSE job'[w] = NoJob
    BY <1>2, <1>5, WithdrawMoves
  <2>2. job'[w] = NoJob \/ Sound(w)'
    BY <1>1, <1>2, <2>1
       DEF At, Goes2, Continues, Sound, KeysHeld, NotLetIn, LinkSoFar, Undoable,
           Here, There, LeftThere, Early, Late
  <2>. QED BY <1>1, <2>1, <2>2, MoveGood DEF Hello, At
<1>. QED BY <1>3, <1>4, <1>5 DEF Hello

LEMMA AnsweredGood ==
  ASSUME PeeringInv, NEW w \in Workers, Answered(w)
  PROVE  Good(w)
<1>1. At(w, "call") /\ TypeOK /\ Sound(w) /\ peers' = peers /\ grant' = grant /\ loose' = loose
  BY AtWork DEF Answered, At, Quiet
<1>2. CASE Goes(w, "grant")
  <2>1. Moves(w) /\ Goes2(w, "grant")
    BY <1>1, <1>2, GoMoves DEF Steps
  <2>2. Sound(w)'
    BY <1>1, <2>1 DEF At, Goes2, Continues, Sound, KeysHeld, NotLetIn, LinkSoFar, Undoable,
                      Here, There, LeftThere, Early, Late
  <2>. QED BY <1>1, <2>1, <2>2, MoveGood DEF Answered, At
<1>3. CASE Ends(w)
  BY <1>1, <1>3, EndMoves, MoveGood DEF Answered, At
<1>. QED BY <1>2, <1>3 DEF Answered

LEMMA BackGood ==
  ASSUME PeeringInv, NEW w \in Workers, Back(w)
  PROVE  Good(w)
<1>1. At(w, "back") /\ TypeOK /\ Sound(w) /\ peers' = peers /\ grant' = grant /\ loose' = loose
  BY AtWork DEF Back, At, Quiet
<1>2. ASSUME (Serves(job[w].at, job[w].to) /\ Goes(w, "regrant")) \/ Goes(w, "unroute")
      PROVE  Good(w)
  <2>1. \/ Moves(w) /\ Goes2(w, "regrant") /\ Serves(job[w].at, job[w].to)
        \/ Moves(w) /\ Goes2(w, "unroute")
    BY <1>1, <1>2, GoMoves DEF Steps
  <2>2. At(w, "back") /\ (job'[w].step = "regrant" => peers[job[w].at][job[w].to].key)
    BY <1>1, <2>1 DEF Serves, At, Goes2
  <2>3. Sound(w)'
    BY <1>1, <2>1, <2>2 DEF At, Goes2, Continues, Sound, KeysHeld, NotLetIn, LinkSoFar, Undoable,
                            Here, There, LeftThere, Early, Late
  <2>. QED BY <1>1, <2>1, <2>3, MoveGood DEF Back, At
<1>. QED BY <1>2 DEF Back

-------------------------------------------------------------------------------
(* Steps that change an entry. *)

LEMMA SetsTouch ==
  ASSUME TypeOK, NEW w \in Workers, job[w].at \in Nodes, job[w].to \in Nodes,
         NEW x \in Nodes, NEW y \in Nodes, Between(w, x, y),
         NEW e \in Entry, Sets(x, y, e), grant' = grant,
         peers[x][y].key => \/ e.key \/ <<x, y>> \in loose'
                            \/ ~\E v \in Workers \ {w} : Granting(v, x, y)
  PROVE  /\ Touches(w) /\ peers'[x][y] = e
         /\ \A a, b \in Nodes : a # x \/ b # y => peers'[a][b] = peers[a][b]
         /\ (/\ ~At(w, "ungrant")
             /\ peers[x][y].key /\ y \in grant[x] =>
                  \/ e.key \/ <<x, y>> \in loose'
                  \/ job'[w].step = "ungrant" /\ x = job[w].at /\ y = job[w].to)
            => Lets(w)
<1>1. /\ peers' \in [Nodes -> [Nodes -> Entry]] /\ peers'[x][y] = e
      /\ \A a, b \in Nodes : a # x \/ b # y => peers'[a][b] = peers[a][b]
  BY SetsOne
<1>2. Touches(w)
  BY <1>1 DEF Touches, TypeOK, Between
<1>3. ASSUME ~At(w, "ungrant"),
             peers[x][y].key /\ y \in grant[x] =>
                  \/ e.key \/ <<x, y>> \in loose'
                  \/ job'[w].step = "ungrant" /\ x = job[w].at /\ y = job[w].to
      PROVE  Lets(w)
  <2>. SUFFICES ASSUME NEW a \in Nodes, NEW b \in Nodes, b \in grant[a]
                PROVE  \/ peers'[a][b].key \/ <<a, b>> \in loose'
                       \/ job'[w].step = "ungrant" /\ a = job[w].at /\ b = job[w].to
                       \/ ~peers[a][b].key
    BY <1>3 DEF Lets
  <2>. QED BY <1>1, <1>3
<1>. QED BY <1>1, <1>2, <1>3

\* An entry that keeps its key, if it has one, is written without a trace.
LEMMA SetsKeyKept ==
  ASSUME TypeOK, NEW w \in Workers, job[w].at \in Nodes, job[w].to \in Nodes,
         NEW x \in Nodes, NEW y \in Nodes, Between(w, x, y), ~At(w, "ungrant"),
         NEW e \in Entry, Sets(x, y, e), grant' = grant, peers[x][y].key => e.key
  PROVE  /\ Touches(w) /\ Lets(w) /\ peers'[x][y] = e
         /\ \A a, b \in Nodes : a # x \/ b # y => peers'[a][b] = peers[a][b]
<1>1. /\ peers[x][y].key => \/ e.key \/ <<x, y>> \in loose'
                             \/ ~\E v \in Workers \ {w} : Granting(v, x, y)
      /\ peers[x][y].key /\ y \in grant[x] =>
           \/ e.key \/ <<x, y>> \in loose'
           \/ job'[w].step = "ungrant" /\ x = job[w].at /\ y = job[w].to
  OBVIOUS
<1>. QED BY <1>1, SetsTouch

LEMMA PendGood ==
  ASSUME PeeringInv, NEW w \in Workers, Pend(w)
  PROVE  Good(w)
<1>. DEFINE n == job[w].at
            m == job[w].to
<1>1. /\ At(w, "pend") \/ At(w, "invite")
      /\ grant' = grant /\ loose' = loose /\ Quiet
  BY DEF Pend, Quiet
<1>2. TypeOK /\ Sound(w) /\ n \in Nodes /\ m \in Nodes /\ n # m
  BY <1>1, AtWork DEF At
<1>3. CASE Ends(w) /\ UNCHANGED peers
  BY <1>1, <1>2, <1>3, EndMoves, MoveGood DEF At
<1>4. CASE Goes(w, "theirs") /\ job[w].existed /\ UNCHANGED peers
  <2>1. Moves(w) /\ Goes2(w, "theirs")
    BY <1>2, <1>4, GoMoves DEF Steps
  <2>2. Sound(w)'
    BY <1>1, <1>2, <1>4, <2>1 DEF At, Goes2, Continues, Sound, KeysHeld, NotLetIn, LinkSoFar,
                                  Undoable, Here, There, LeftThere, Early, Late
  <2>. QED BY <1>1, <1>2, <1>4, <2>1, <2>2, MoveGood DEF At
<1>5. CASE /\ ~peers[n][m].key /\ Sets(n, m, [key |-> FALSE, addr |-> TRUE])
           /\ Goes(w, "theirs") \/ Ends(w)
  <2>. DEFINE e == [key |-> FALSE, addr |-> TRUE]
  <2>1. e \in Entry /\ ~e.key /\ e.addr
    BY DEF Entry
  <2>. HIDE DEF e
  <2>2. /\ Touches(w) /\ Lets(w) /\ peers'[n][m] = e /\ peers'[m][n] = peers[m][n]
    <3>1. Between(w, n, m) /\ ~At(w, "ungrant") /\ Sets(n, m, e)
      BY <1>1, <1>5 DEF Between, At, e
    <3>. QED BY <1>1, <1>2, <1>5, <2>1, <3>1, SetsKeyKept
  <2>3. CASE Goes(w, "theirs")
    <3>1. Moves(w) /\ Goes2(w, "theirs")
      BY <1>2, <2>3, GoMoves DEF Steps
    <3>2. Sound(w)'
      BY <1>1, <1>2, <2>1, <2>2, <3>1 DEF At, Goes2, Continues, Sound, KeysHeld, NotLetIn,
         LinkSoFar, Undoable, Here, There, LeftThere, Early, Late
    <3>. QED BY <1>1, <1>2, <2>2, <3>1, <3>2, QuietCounts DEF Good, Quiet
  <2>4. CASE Ends(w)
    BY <1>1, <1>2, <2>2, <2>4, EndMoves, EndSound, QuietCounts DEF Good, Quiet
  <2>. QED BY <1>5, <2>3, <2>4
<1>. QED BY <1>3, <1>4, <1>5 DEF Pend

LEMMA PinGood ==
  ASSUME PeeringInv, NEW w \in Workers, Pin(w)
  PROVE  Good(w)
<1>. DEFINE n == job[w].at
            m == job[w].to
<1>1. At(w, "pin") /\ grant' = grant /\ loose' = loose /\ Quiet
  BY DEF Pin, Quiet
<1>2. TypeOK /\ Sound(w) /\ n \in Nodes /\ m \in Nodes /\ n # m
  BY <1>1, AtWork DEF At
<1>3. CASE Unwinds(w) /\ UNCHANGED peers
  <2>1. Moves(w) /\ (job'[w] = NoJob \/ Goes2(w, "unpin"))
    BY <1>2, <1>3, UnwindMoves
  <2>2. job'[w] = NoJob \/ Sound(w)'
    BY <1>1, <1>2, <1>3, <2>1 DEF At, Goes2, Continues, Sound, KeysHeld, NotLetIn, LinkSoFar,
                                  Undoable, Here, There, LeftThere, Early, Late
  <2>. QED BY <1>1, <1>2, <1>3, <2>1, <2>2, MoveGood DEF At
<1>4. CASE Sets(n, m, [key |-> TRUE, addr |-> TRUE]) /\ Goes(w, "grant")
  <2>. DEFINE e == [key |-> TRUE, addr |-> TRUE]
  <2>1. e \in Entry /\ e.key /\ e.addr
    BY DEF Entry
  <2>. HIDE DEF e
  <2>2. /\ Touches(w) /\ Lets(w) /\ peers'[n][m] = e /\ peers'[m][n] = peers[m][n]
    <3>1. Between(w, n, m) /\ ~At(w, "ungrant") /\ Sets(n, m, e)
      BY <1>1, <1>4 DEF Between, At, e
    <3>. QED BY <1>1, <1>2, <2>1, <3>1, SetsKeyKept
  <2>3. Moves(w) /\ Goes2(w, "grant")
    BY <1>2, <1>4, GoMoves DEF Steps
  <2>4. Sound(w)'
    BY <1>1, <1>2, <2>1, <2>2, <2>3 DEF At, Goes2, Continues, Sound, KeysHeld, NotLetIn,
       LinkSoFar, Undoable, Here, There, LeftThere, Early, Late
  <2>. QED BY <1>1, <1>2, <2>2, <2>3, <2>4, QuietCounts DEF Good, Quiet
<1>. QED BY <1>3, <1>4 DEF Pin

LEMMA TheirsGood ==
  ASSUME PeeringInv, NEW w \in Workers, Theirs(w)
  PROVE  Good(w)
<1>. DEFINE n == job[w].at
            m == job[w].to
<1>1. At(w, "theirs") /\ grant' = grant /\ loose' = loose /\ Quiet
  BY DEF Theirs, Quiet
<1>2. TypeOK /\ Sound(w) /\ n \in Nodes /\ m \in Nodes /\ n # m
  BY <1>1, AtWork DEF At
<1>3. CASE Goes(w, "unpend") /\ UNCHANGED peers
  <2>1. Moves(w) /\ Goes2(w, "unpend")
    BY <1>2, <1>3, GoMoves DEF Steps
  <2>2. Sound(w)'
    BY <1>1, <1>2, <1>3, <2>1 DEF At, Goes2, Continues, Sound, KeysHeld, NotLetIn, LinkSoFar,
                                  Undoable, Here, There, LeftThere, Early, Late
  <2>. QED BY <1>1, <1>2, <1>3, <2>1, <2>2, MoveGood DEF At
<1>4. CASE /\ Sets(m, n, [peers[m][n] EXCEPT !.key = TRUE])
           /\ job' = [job EXCEPT ![w].step = "theirgrant", ![w].prev = peers[m][n],
                                 ![w].created = peers[m][n] = NoEntry]
  <2>. DEFINE was == peers[m][n]
              e == [was EXCEPT !.key = TRUE]
              j == [job[w] EXCEPT !.step = "theirgrant", !.prev = was, !.created = was = NoEntry]
  <2>0. was \in Entry
    BY <1>2 DEF TypeOK
  <2>1. e \in Entry /\ e.key /\ e.addr = was.addr
    BY <2>0 DEF Entry
  <2>2. /\ j \in Job /\ j.step = "theirgrant" /\ j.prev = was /\ j.created = (was = NoEntry)
        /\ j.op = job[w].op /\ j.at = n /\ j.to = m /\ j.existed = job[w].existed
        /\ j.before = job[w].before /\ j.alone = job[w].alone /\ j.failed = job[w].failed
        /\ j.step # "idle"
    <3>1. job[w] \in Job
      BY <1>2, JobTyped
    <3>. QED BY <2>0, <3>1 DEF Job, Steps
  <2>3. job' = [job EXCEPT ![w] = j]
    BY <1>2, <1>4 DEF TypeOK
  <2>4. Sets(m, n, e)
    BY <1>4
  <2>. HIDE DEF e, j
  <2>5. /\ Touches(w) /\ Lets(w) /\ peers'[m][n] = e /\ peers'[n][m] = peers[n][m]
    <3>1. Between(w, m, n) /\ ~At(w, "ungrant")
      BY <1>1 DEF Between, At
    <3>2. was.key => e.key
      BY <2>1
    <3>. QED BY <1>1, <1>2, <2>1, <2>4, <3>1, <3>2, SetsKeyKept
  <2>6. Moves(w) /\ Continues(w) /\ job'[w] = j
    BY <1>2, <2>2, <2>3, JobMoves
  <2>7. ASSUME job[w].alone, ~was.key PROVE n \notin grant[m] \/ <<m, n>> \in loose
    BY <1>1, <1>2, <2>7 DEF PeeringInv, Alone, GrantsArePeers, About, At
  <2>8. ~was.key /\ ~was.addr => was = NoEntry
    BY <2>0, EntryTyped
  <2>. HIDE DEF was
  <2>9. Sound(w)'
    BY <1>1, <1>2, <2>1, <2>2, <2>5, <2>6, <2>7, <2>8 DEF was, At, Continues, Sound, KeysHeld,
       NotLetIn, LinkSoFar, Undoable, Here, There, LeftThere, Early, Late
  <2>. QED BY <1>1, <1>2, <2>5, <2>6, <2>9, QuietCounts DEF Good, Quiet
<1>. QED BY <1>3, <1>4 DEF Theirs

LEMMA RouteGood ==
  ASSUME PeeringInv, NEW w \in Workers, Route(w)
  PROVE  Good(w)
<1>. DEFINE n == job[w].at
            m == job[w].to
<1>1. At(w, "route") /\ grant' = grant /\ loose' = loose /\ Quiet
  BY DEF Route, Quiet
<1>2. TypeOK /\ Sound(w) /\ n \in Nodes /\ m \in Nodes /\ n # m
  BY <1>1, AtWork DEF At
<1>3. CASE Unwinds(w) /\ UNCHANGED peers
  <2>1. Moves(w) /\ (job'[w] = NoJob \/ Goes2(w, "unpin"))
    BY <1>2, <1>3, UnwindMoves
  <2>2. job'[w] = NoJob \/ Sound(w)'
    BY <1>1, <1>2, <1>3, <2>1 DEF At, Goes2, Continues, Sound, KeysHeld, NotLetIn, LinkSoFar,
                                  Undoable, Here, There, LeftThere, Early, Late
  <2>. QED BY <1>1, <1>2, <1>3, <2>1, <2>2, MoveGood DEF At
<1>4. CASE /\ Serves(m, n) /\ Sets(m, n, [peers[m][n] EXCEPT !.addr = TRUE])
           /\ job' = [job EXCEPT ![w].step = "back", ![w].prev = peers[m][n]]
  <2>. DEFINE was == peers[m][n]
              e == [was EXCEPT !.addr = TRUE]
              j == [job[w] EXCEPT !.step = "back", !.prev = was]
  <2>0. was \in Entry
    BY <1>2 DEF TypeOK
  <2>1. e \in Entry /\ e.key /\ e.addr /\ was.key
    BY <1>4, <2>0 DEF Entry, Serves
  <2>2. /\ j \in Job /\ j.step = "back" /\ j.prev = was /\ j.created = job[w].created
        /\ j.op = job[w].op /\ j.at = n /\ j.to = m /\ j.existed = job[w].existed
        /\ j.before = job[w].before /\ j.alone = job[w].alone /\ j.failed = job[w].failed
        /\ j.step # "idle"
    <3>1. job[w] \in Job
      BY <1>2, JobTyped
    <3>. QED BY <2>0, <3>1 DEF Job, Steps
  <2>3. job' = [job EXCEPT ![w] = j]
    BY <1>2, <1>4 DEF TypeOK
  <2>4. Sets(m, n, e)
    BY <1>4
  <2>. HIDE DEF e, j
  <2>5. /\ Touches(w) /\ Lets(w) /\ peers'[m][n] = e /\ peers'[n][m] = peers[n][m]
    <3>1. Between(w, m, n) /\ ~At(w, "ungrant")
      BY <1>1 DEF Between, At
    <3>2. was.key => e.key
      BY <2>1
    <3>. QED BY <1>1, <1>2, <2>1, <2>4, <3>1, <3>2, SetsKeyKept
  <2>6. Moves(w) /\ Continues(w) /\ job'[w] = j
    BY <1>2, <2>2, <2>3, JobMoves
  <2>7. Sound(w)'
    BY <1>1, <1>2, <2>1, <2>2, <2>5, <2>6 DEF At, Continues, Sound, KeysHeld,
       NotLetIn, LinkSoFar, Undoable, Here, There, LeftThere, Early, Late
  <2>. QED BY <1>1, <1>2, <2>5, <2>6, <2>7, QuietCounts DEF Good, Quiet
<1>. QED BY <1>3, <1>4 DEF Route

LEMMA UnrouteGood ==
  ASSUME PeeringInv, NEW w \in Workers, Unroute(w)
  PROVE  Good(w)
<1>. DEFINE n == job[w].at
            m == job[w].to
            was == peers[m][n]
            e == [was EXCEPT !.addr = job[w].prev.addr]
<1>1. At(w, "unroute") /\ grant' = grant /\ loose' = loose /\ Quiet
  BY DEF Unroute, Quiet
<1>2. /\ TypeOK /\ Sound(w) /\ n \in Nodes /\ m \in Nodes /\ n # m
      /\ was \in Entry /\ job[w].prev.addr \in BOOLEAN
  BY <1>1, AtWork, JobTyped, EntryTyped DEF At, TypeOK
<1>3. e \in Entry /\ (e.key <=> was.key) /\ (e.addr <=> job[w].prev.addr)
  BY <1>2 DEF Entry
<1>4. \/ was.addr /\ Sets(m, n, e)
      \/ ~was.addr /\ peers' = peers
  BY <1>2 DEF Unroute, Sets, TypeOK
<1>. HIDE DEF e
<1>5. /\ Touches(w) /\ Lets(w) /\ peers'[n][m] = peers[n][m]
      /\ IF was.addr THEN peers'[m][n] = e ELSE peers'[m][n] = was
  <2>1. CASE was.addr /\ Sets(m, n, e)
    <3>1. Between(w, m, n) /\ ~At(w, "ungrant")
      BY <1>1 DEF Between, At
    <3>. QED BY <1>1, <1>2, <1>3, <2>1, <3>1, SetsKeyKept
  <2>2. CASE ~was.addr /\ peers' = peers
    BY <1>1, <1>2, <2>2, TouchesNothing DEF At
  <2>. QED BY <1>4, <2>1, <2>2
<1>6. Moves(w) /\ IF job[w].op \in {"reverify", "call"} THEN job'[w] = NoJob ELSE Goes2(w, "unpin")
  BY <1>2, UnwindMoves DEF Unroute
<1>7. job'[w] = NoJob \/ Sound(w)'
  BY <1>1, <1>2, <1>3, <1>5, <1>6 DEF At, Goes2, Continues, Sound, KeysHeld,
     NotLetIn, LinkSoFar, Undoable, Here, There, LeftThere, Early, Late
<1>. QED BY <1>1, <1>2, <1>5, <1>6, <1>7, EndSound, QuietCounts DEF Good, Quiet

LEMMA UnpinGood ==
  ASSUME PeeringInv, NEW w \in Workers, Unpin(w)
  PROVE  Good(w)
<1>. DEFINE n == job[w].at
            m == job[w].to
            was == peers[n][m]
            e == [was EXCEPT !.key = FALSE]
<1>1. At(w, "unpin") /\ grant' = grant /\ Loses(w, n, m) /\ UNCHANGED <<commands, faults>>
  BY DEF Unpin
<1>2. TypeOK /\ Sound(w) /\ n \in Nodes /\ m \in Nodes /\ n # m /\ was \in Entry
  BY <1>1, AtWork DEF At, TypeOK
<1>3. e \in Entry /\ ~e.key /\ e.addr = was.addr /\ Sets(n, m, e)
  BY <1>2 DEF Entry, Unpin
<1>4. Moves(w) /\ Goes2(w, "ungrant")
  BY <1>2, GoMoves DEF Unpin, Steps
<1>. HIDE DEF e
<1>5. peers'[n][m] = e
  BY <1>2, <1>3, SetsOne
<1>6. was.key => <<n, m>> \in loose' \/ ~\E v \in Workers \ {w} : Granting(v, n, m)
  BY <1>1, <1>3, <1>5 DEF Loses, Loosens
<1>7. Touches(w) /\ Lets(w) /\ peers'[m][n] = peers[m][n]
  BY <1>1, <1>2, <1>3, <1>4, <1>6, SetsTouch DEF At, Between, Goes2
<1>8. loose \subseteq loose'
  BY <1>1 DEF Loses, Loosens
<1>9. Sound(w)'
  BY <1>1, <1>2, <1>3, <1>4, <1>5, <1>7, <1>8 DEF At, Goes2, Continues, Sound, KeysHeld,
     NotLetIn, LinkSoFar, Undoable, Here, There, LeftThere, Early, Late
<1>. QED BY <1>1, <1>2, <1>4, <1>7, <1>9, LosesCounts DEF Good

LEMMA UnpendGood ==
  ASSUME PeeringInv, NEW w \in Workers, Unpend(w)
  PROVE  Good(w)
<1>. DEFINE n == job[w].at
            m == job[w].to
<1>1. At(w, "unpend") /\ grant' = grant /\ loose' = loose /\ Quiet
  BY DEF Unpend, Quiet
<1>2. TypeOK /\ n \in Nodes /\ m \in Nodes /\ n # m
  BY <1>1, AtWork DEF At
<1>3. Moves(w) /\ job'[w] = NoJob
  BY <1>2, EndMoves DEF Unpend
<1>4. Touches(w) /\ Lets(w)
  <2>1. CASE UNCHANGED peers
    BY <1>1, <1>2, <2>1, TouchesNothing DEF At
  <2>2. CASE ~peers[n][m].key /\ Sets(n, m, NoEntry)
    <3>1. Between(w, n, m) /\ ~At(w, "ungrant")
      BY <1>1 DEF Between, At
    <3>. QED BY <1>1, <1>2, <2>2, <3>1, EntryTyped, SetsKeyKept
  <2>. QED BY <2>1, <2>2 DEF Unpend, Sets
<1>. QED BY <1>1, <1>2, <1>3, <1>4, EndSound, QuietCounts DEF Good, Quiet

LEMMA KeepGood ==
  ASSUME PeeringInv, NEW w \in Workers, Keep(w)
  PROVE  Good(w)
<1>. DEFINE n == job[w].at
            m == job[w].to
            found == job[w].before.peers[n][m]
<1>1. At(w, "keep") /\ grant' = grant /\ loose' = loose /\ Quiet
  BY DEF Keep, Quiet
<1>2. /\ TypeOK /\ Sound(w) /\ n \in Nodes /\ m \in Nodes /\ n # m
      /\ found \in Entry
  BY <1>1, AtWork, JobTyped DEF At
<1>3. CASE Ends(w) /\ UNCHANGED peers
  BY <1>1, <1>2, <1>3, EndMoves, MoveGood DEF At
<1>4. ASSUME NEW addr \in {found.addr, TRUE}, Sets(n, m, [key |-> TRUE, addr |-> addr]),
             job' = [job EXCEPT ![w].step = "keepgrant", ![w].prev = [key |-> TRUE, addr |-> addr]]
      PROVE  Good(w)
  <2>. DEFINE e == [key |-> TRUE, addr |-> addr]
              j == [job[w] EXCEPT !.step = "keepgrant", !.prev = e]
  <2>1. e \in Entry /\ e.key
    BY <1>2, EntryTyped DEF Entry
  <2>2. Sets(n, m, e)
    BY <1>4
  <2>3. job' = [job EXCEPT ![w] = j]
    BY <1>2, <1>4 DEF TypeOK
  <2>. HIDE DEF e
  <2>4. /\ j \in Job /\ j.step = "keepgrant"
        /\ j.op = job[w].op /\ j.at = n /\ j.to = m /\ j.existed = job[w].existed
        /\ j.before = job[w].before /\ j.alone = job[w].alone /\ j.failed = job[w].failed
    <3>1. job[w] \in Job
      BY <1>2, JobTyped
    <3>. QED BY <2>1, <3>1 DEF Job, Steps
  <2>. HIDE DEF j
  <2>5. /\ Touches(w) /\ Lets(w) /\ peers'[n][m] = e
    <3>1. Between(w, n, m) /\ ~At(w, "ungrant")
      BY <1>1 DEF Between, At
    <3>. QED BY <1>1, <1>2, <2>1, <2>2, <3>1, SetsKeyKept
  <2>6. Moves(w) /\ Continues(w) /\ job'[w] = j
    <3>1. j.step # "idle"
      BY <2>4
    <3>2. j.alone => job[w].alone
      BY <2>4
    <3>. HIDE DEF m, n
    <3>. QED BY <1>2, <2>3, <2>4, <3>1, <3>2, JobMoves DEF n, m
  <2>7. ASSUME job[w].alone, ~found.key PROVE m \notin grant[n] \/ <<n, m>> \in loose
    <3>1. peers[n][m] = found
      BY <1>1, <1>2, <2>7 DEF Sound, NotLetIn
    <3>2. \A v \in Workers : ~(At(v, "ungrant") /\ job[v].at = n /\ job[v].to = m)
      BY <1>1, <2>7 DEF PeeringInv, Alone, About, At
    <3>. QED BY <1>2, <2>7, <3>1, <3>2 DEF PeeringInv, GrantsArePeers
  <2>8. Sound(w)'
    BY <1>1, <1>2, <2>1, <2>4, <2>5, <2>6, <2>7 DEF At, Continues, Sound, KeysHeld,
       NotLetIn, LinkSoFar, Undoable, Here, There, LeftThere, Early, Late
  <2>. QED BY <1>1, <1>2, <2>5, <2>6, <2>8, QuietCounts DEF Good, Quiet
<1>. QED BY <1>3, <1>4 DEF Keep

LEMMA DropGood ==
  ASSUME PeeringInv, NEW w \in Workers, Drop(w)
  PROVE  Good(w)
<1>. DEFINE n == job[w].at
            m == job[w].to
<1>1. At(w, "drop") /\ grant' = grant /\ UNCHANGED <<commands, faults>>
  BY DEF Drop
<1>2. TypeOK /\ Sound(w) /\ n \in Nodes /\ m \in Nodes /\ n # m
  BY <1>1, AtWork DEF At
<1>3. Moves(w) /\ job'[w] = NoJob
  BY <1>2, EndMoves DEF Drop
<1>4. CASE UNCHANGED <<peers, loose>>
  BY <1>1, <1>2, <1>3, <1>4, TouchesNothing, EndSound, QuietCounts DEF Good, At
<1>5. CASE Sets(n, m, NoEntry) /\ LosesUncut(w, n, m)
  <2>1. peers'[n][m] = NoEntry /\ ~NoEntry.key /\ NoEntry \in Entry
    BY <1>2, <1>5, EntryTyped, SetsOne
  <2>2. loose \subseteq loose'
    BY <1>5 DEF LosesUncut, Loosens
  <2>3. peers[n][m].key /\ <<n, m>> \notin loose' =>
          job[w].alone /\ ~\E v \in Workers \ {w} : Granting(v, n, m)
    BY <1>1, <1>2, <1>5, <2>1, LosesNoted DEF At
  <2>4. peers[n][m].key /\ <<n, m>> \notin loose' => m \notin grant[n]
    BY <1>1, <1>2, <2>2, <2>3 DEF Sound, NotLetIn
  <2>5. Between(w, n, m) /\ ~At(w, "ungrant")
    BY <1>1 DEF Between, At
  <2>6. Touches(w) /\ Lets(w)
    BY <1>1, <1>2, <1>5, <2>1, <2>3, <2>4, <2>5, SetsTouch
  <2>. QED BY <1>1, <1>2, <1>3, <1>5, <2>6, EndSound, LosesCounts DEF Good
<1>. QED BY <1>4, <1>5 DEF Drop

LEMMA WithdrawGood ==
  ASSUME PeeringInv, NEW w \in Workers, Withdraw(w)
  PROVE  Good(w)
<1>. DEFINE n == job[w].at
            m == job[w].to
<1>1. At(w, "withdraw") /\ commands' = commands
  BY DEF Withdraw
<1>2. TypeOK /\ Sound(w) /\ n \in Nodes /\ m \in Nodes /\ n # m
  BY <1>1, AtWork DEF At
<1>3. CASE ~job[w].created /\ Goes(w, "unpend") /\ UNCHANGED <<peers, grant, loose, faults>>
  <2>1. Moves(w) /\ Goes2(w, "unpend")
    BY <1>2, <1>3, GoMoves DEF Steps
  <2>2. Sound(w)'
    BY <1>1, <1>2, <1>3, <2>1 DEF At, Goes2, Continues, Sound, KeysHeld, NotLetIn, LinkSoFar,
                                  Undoable, Here, There, LeftThere, Early, Late
  <2>. QED BY <1>1, <1>2, <1>3, <2>1, <2>2, MoveGood DEF At, Quiet
<1>4. CASE Falters(w, "unpend") /\ UNCHANGED <<peers, grant, loose>>
  <2>1. Moves(w) /\ faults' \in 0 .. MaxFaults /\ Falters2(w, "unpend")
    BY <1>2, <1>4, FalterMoves DEF Steps
  <2>2. Sound(w)'
    BY <1>1, <1>2, <1>4, <2>1 DEF At, Falters2, Continues, Sound, KeysHeld, NotLetIn, LinkSoFar,
                                  Undoable, Here, There, LeftThere, Early, Late
  <2>. QED BY <1>1, <1>2, <1>4, <2>1, <2>2, TouchesNothing, QuietCounts DEF Good, At
<1>5. CASE /\ Sets(m, n, NoEntry) /\ Revokes(m, n) /\ Loses(w, m, n)
           /\ Goes(w, "unpend") /\ UNCHANGED faults
  <2>1. Moves(w) /\ Goes2(w, "unpend")
    BY <1>2, <1>5, GoMoves DEF Steps
  <2>2. /\ peers' \in [Nodes -> [Nodes -> Entry]] /\ peers'[m][n] = NoEntry
        /\ \A x, y \in Nodes : x # m \/ y # n => peers'[x][y] = peers[x][y]
    BY <1>2, <1>5, EntryTyped, SetsOne
  <2>3. /\ grant' \in [Nodes -> SUBSET Nodes] /\ n \notin grant'[m]
        /\ \A x, y \in Nodes : x # m \/ y # n => (y \in grant'[x] <=> y \in grant[x])
    BY <1>2, <1>5, RevokesOne
  <2>4. /\ peers[m][n].key => <<m, n>> \in loose' \/ ~\E v \in Workers \ {w} : Granting(v, m, n)
        /\ loose \subseteq loose'
    BY <1>5, <2>2, EntryTyped DEF Loses, Loosens
  <2>5. Touches(w)
    <3>1. ASSUME NEW x \in Nodes, NEW y \in Nodes, ~Between(w, x, y)
          PROVE  peers'[x][y] = peers[x][y] /\ (y \in grant'[x] <=> y \in grant[x])
      BY <1>2, <2>2, <2>3, <3>1 DEF Between
    <3>2. ASSUME NEW x \in Nodes, NEW y \in Nodes, peers[x][y].key
          PROVE  \/ peers'[x][y].key \/ <<x, y>> \in loose'
                 \/ ~\E v \in Workers \ {w} : Granting(v, x, y)
      <4>1. CASE x = m /\ y = n
        BY <2>4, <3>2, <4>1
      <4>2. CASE ~(x = m /\ y = n)
        BY <2>2, <3>2, <4>2
      <4>. QED BY <4>1, <4>2
    <3>. QED BY <2>2, <2>3, <3>1, <3>2 DEF Touches
  <2>6. Lets(w)
    BY <1>1, <1>2, <2>2, <2>3 DEF Lets, At
  <2>7. peers'[n][m] = peers[n][m] /\ (m \in grant'[n] <=> m \in grant[n])
    BY <1>2, <2>2, <2>3
  <2>8. Sound(w)'
    BY <1>1, <1>2, <2>1, <2>2, <2>3, <2>4, <2>7, EntryTyped DEF At, Goes2, Continues, Sound,
       KeysHeld, NotLetIn, LinkSoFar, Undoable, Here, There, LeftThere, Early, Late
  <2>. QED BY <1>1, <1>2, <1>5, <2>1, <2>5, <2>6, <2>8, LosesCounts DEF Good
<1>. QED BY <1>3, <1>4, <1>5 DEF Withdraw

-------------------------------------------------------------------------------
(* Steps that change a grant. *)

LEMMA GrantsTouch ==
  ASSUME TypeOK, NEW w \in Workers, job[w].at \in Nodes, job[w].to \in Nodes,
         NEW x \in Nodes, NEW y \in Nodes, Between(w, x, y),
         Grants(x, y), peers' = peers, ~At(w, "ungrant")
  PROVE  /\ Touches(w) /\ y \in grant'[x]
         /\ \A a, b \in Nodes : a # x \/ b # y => (b \in grant'[a] <=> b \in grant[a])
         /\ peers[x][y].key \/ <<x, y>> \in loose' => Lets(w)
<1>1. /\ grant' \in [Nodes -> SUBSET Nodes] /\ y \in grant'[x]
      /\ \A a, b \in Nodes : a # x \/ b # y => (b \in grant'[a] <=> b \in grant[a])
  BY GrantsOne
<1>2. Touches(w)
  BY <1>1 DEF Touches, TypeOK, Between
<1>3. peers[x][y].key \/ <<x, y>> \in loose' => Lets(w)
  BY <1>1 DEF Lets
<1>. QED BY <1>1, <1>2, <1>3

LEMMA RevokesTouch ==
  ASSUME TypeOK, NEW w \in Workers, job[w].at \in Nodes, job[w].to \in Nodes,
         Revokes(job[w].at, job[w].to), peers' = peers
  PROVE  /\ Touches(w) /\ Lets(w) /\ job[w].to \notin grant'[job[w].at]
         /\ \A a, b \in Nodes : a # job[w].at \/ b # job[w].to =>
              (b \in grant'[a] <=> b \in grant[a])
<1>. DEFINE n == job[w].at
            m == job[w].to
<1>1. /\ grant' \in [Nodes -> SUBSET Nodes] /\ m \notin grant'[n]
      /\ \A a, b \in Nodes : a # n \/ b # m => (b \in grant'[a] <=> b \in grant[a])
  BY RevokesOne
<1>2. Touches(w)
  BY <1>1 DEF Touches, TypeOK, Between
<1>3. Lets(w)
  BY <1>1 DEF Lets
<1>. QED BY <1>1, <1>2, <1>3

LEMMA TheirGrantGood ==
  ASSUME PeeringInv, NEW w \in Workers, TheirGrant(w)
  PROVE  Good(w)
<1>. DEFINE n == job[w].at
            m == job[w].to
            prev == job[w].prev
<1>1. At(w, "theirgrant") /\ commands' = commands
  BY DEF TheirGrant
<1>2. /\ TypeOK /\ Sound(w) /\ n \in Nodes /\ m \in Nodes /\ n # m /\ prev \in Entry
      /\ ~At(w, "ungrant") /\ Between(w, m, n)
  BY <1>1, AtWork, JobTyped DEF At, Between
<1>3. CASE Grants(m, n) /\ Goes(w, "hello") /\ UNCHANGED <<peers, loose, faults>>
  <2>1. Moves(w) /\ Goes2(w, "hello")
    BY <1>2, <1>3, GoMoves DEF Steps
  <2>2. Touches(w) /\ (peers[m][n].key \/ <<m, n>> \in loose' => Lets(w)) /\ (m \in grant'[n] <=> m \in grant[n])
    BY <1>2, <1>3, GrantsTouch
  <2>3. peers[m][n].key \/ <<m, n>> \in loose
    BY <1>1, <1>2 DEF At, Sound, KeysHeld
  <2>4. Sound(w)'
    BY <1>1, <1>2, <1>3, <2>1, <2>2 DEF At, Goes2, Continues, Sound, KeysHeld,
       NotLetIn, LinkSoFar, Undoable, Here, There, LeftThere, Early, Late
  <2>. QED BY <1>1, <1>2, <1>3, <2>1, <2>2, <2>3, <2>4, QuietCounts DEF Good
<1>4. CASE Grants(m, n) /\ Falters(w, "unpend") /\ UNCHANGED <<peers, loose>>
  <2>1. Moves(w) /\ faults' \in 0 .. MaxFaults /\ Falters2(w, "unpend")
    BY <1>2, <1>4, FalterMoves DEF Steps
  <2>2. Touches(w) /\ (peers[m][n].key \/ <<m, n>> \in loose' => Lets(w)) /\ (m \in grant'[n] <=> m \in grant[n])
    BY <1>2, <1>4, GrantsTouch
  <2>3. peers[m][n].key \/ <<m, n>> \in loose
    BY <1>1, <1>2 DEF At, Sound, KeysHeld
  <2>4. Sound(w)'
    BY <1>1, <1>2, <1>4, <2>1, <2>2 DEF At, Falters2, Continues, Sound, KeysHeld,
       NotLetIn, LinkSoFar, Undoable, Here, There, LeftThere, Early, Late
  <2>. QED BY <1>1, <1>2, <1>4, <2>1, <2>2, <2>3, <2>4, QuietCounts DEF Good
<1>5. CASE /\ Reverted(m, n, [prev EXCEPT !.key = TRUE], prev) /\ LosesUncut(w, m, n)
           /\ Goes(w, "unpend") /\ UNCHANGED <<grant, faults>>
  <2>1. Moves(w) /\ Goes2(w, "unpend") /\ loose \subseteq loose'
    BY <1>2, <1>5, GoMoves DEF Steps, LosesUncut, Loosens
  <2>. DEFINE stored == [prev EXCEPT !.key = TRUE]
  <2>2. stored.key /\ (stored.addr <=> prev.addr) /\ stored \in Entry
    BY <1>2 DEF Entry
  <2>. HIDE DEF stored
  <2>3. \/ peers[m][n] = stored /\ Sets(m, n, prev)
        \/ peers[m][n] # stored /\ peers' = peers
    BY <1>5 DEF Reverted, Sets, stored
  <2>4. CASE peers[m][n] = stored /\ Sets(m, n, prev)
    <3>1. peers'[m][n] = prev
      BY <1>2, <2>4, SetsOne
    <3>2. ~prev.key /\ <<m, n>> \notin loose' =>
            job[w].alone /\ ~\E v \in Workers \ {w} : Granting(v, m, n)
      BY <1>1, <1>2, <1>5, <2>2, <2>4, <3>1, LosesNoted DEF At
    <3>3. ~prev.key /\ <<m, n>> \notin loose' => n \notin grant[m]
      BY <1>1, <1>2, <2>1, <3>2 DEF Sound, NotLetIn
    <3>4. Touches(w) /\ Lets(w) /\ peers'[n][m] = peers[n][m]
      BY <1>2, <1>5, <2>4, <3>2, <3>3, SetsTouch
    <3>5. Sound(w)'
      BY <1>1, <1>2, <1>5, <2>1, <3>1, <3>4 DEF At, Goes2, Continues, Sound, KeysHeld,
         NotLetIn, LinkSoFar, Undoable, Here, There, LeftThere, Early, Late
    <3>. QED BY <1>1, <1>2, <1>5, <2>1, <3>4, <3>5, LosesCounts DEF Good
  <2>5. CASE peers[m][n] # stored /\ peers' = peers
    <3>1. Touches(w) /\ Lets(w)
      BY <1>2, <1>5, <2>5, TouchesNothing
    <3>2. ~Undoable(w)
      <4>1. SUFFICES ASSUME Undoable(w) PROVE FALSE
        OBVIOUS
      <4>2. peers[m][n].key /\ ~peers[m][n].addr /\ ~prev.addr
        BY <1>1, <1>2, <4>1 DEF At, Sound, Undoable, There, Late
      <4>3. peers[m][n] \in Entry
        BY <1>2 DEF TypeOK
      <4>. QED BY <2>2, <2>5, <4>2, <4>3, EntriesEqual
    <3>3. Sound(w)'
      BY <1>1, <1>2, <1>5, <2>1, <2>5, <3>2 DEF At, Goes2, Continues, Sound, KeysHeld,
         NotLetIn, LinkSoFar, Undoable
    <3>. QED BY <1>1, <1>2, <1>5, <2>1, <3>1, <3>3, LosesCounts DEF Good
  <2>. QED BY <2>3, <2>4, <2>5
<1>. QED BY <1>3, <1>4, <1>5 DEF TheirGrant

LEMMA GrantGood ==
  ASSUME PeeringInv, NEW w \in Workers, Grant(w)
  PROVE  Good(w)
<1>. DEFINE n == job[w].at
            m == job[w].to
<1>1. At(w, "grant") /\ peers' = peers /\ loose' = loose /\ Quiet
  BY DEF Grant, Quiet
<1>2. /\ TypeOK /\ Sound(w) /\ n \in Nodes /\ m \in Nodes /\ n # m
      /\ ~At(w, "ungrant") /\ Between(w, n, m)
  BY <1>1, AtWork DEF At, Between
<1>3. CASE /\ Grants(n, m)
           /\ IF job[w].op = "call" THEN Ends(w) ELSE Goes(w, "route")
  <2>1. Moves(w) /\ (job'[w] = NoJob \/ Goes2(w, "route"))
    BY <1>2, <1>3, GoMoves, EndMoves DEF Steps
  <2>2. Touches(w) /\ (peers[n][m].key \/ <<n, m>> \in loose' => Lets(w)) /\ (n \in grant'[m] <=> n \in grant[m])
    BY <1>2, <1>3, <1>1, GrantsTouch
  <2>3. peers[n][m].key \/ <<n, m>> \in loose
    BY <1>1, <1>2 DEF At, Sound, KeysHeld
  <2>4. job'[w] = NoJob \/ Sound(w)'
    BY <1>1, <1>2, <1>3, <2>1, <2>2 DEF At, Goes2, Continues, Sound, KeysHeld,
       NotLetIn, LinkSoFar, Undoable, Here, There, LeftThere, Early, Late
  <2>. QED BY <1>1, <1>2, <2>1, <2>2, <2>3, <2>4, EndSound, QuietCounts DEF Good, Quiet
<1>4. CASE Unwinds(w) /\ UNCHANGED grant
  <2>1. Moves(w) /\ (job'[w] = NoJob \/ Goes2(w, "unpin"))
    BY <1>2, <1>4, UnwindMoves
  <2>2. job'[w] = NoJob \/ Sound(w)'
    BY <1>1, <1>2, <1>4, <2>1 DEF At, Goes2, Continues, Sound, KeysHeld, NotLetIn, LinkSoFar,
                                  Undoable, Here, There, LeftThere, Early, Late
  <2>. QED BY <1>1, <1>2, <1>4, <2>1, <2>2, MoveGood DEF At
<1>. QED BY <1>3, <1>4 DEF Grant

LEMMA RegrantGood ==
  ASSUME PeeringInv, NEW w \in Workers, Regrant(w)
  PROVE  Good(w)
<1>. DEFINE n == job[w].at
            m == job[w].to
<1>1. At(w, "regrant") /\ peers' = peers /\ loose' = loose /\ commands' = commands /\ Grants(m, n)
  BY DEF Regrant
<1>2. /\ TypeOK /\ Sound(w) /\ n \in Nodes /\ m \in Nodes /\ n # m
      /\ ~At(w, "ungrant") /\ Between(w, m, n)
  BY <1>1, AtWork DEF At, Between
<1>3. /\ Touches(w) /\ (peers[m][n].key \/ <<m, n>> \in loose' => Lets(w)) /\ n \in grant'[m]
      /\ (m \in grant'[n] <=> m \in grant[n])
  BY <1>1, <1>2, GrantsTouch
<1>4. peers[m][n].key \/ <<m, n>> \in loose
  BY <1>1, <1>2 DEF At, Sound, KeysHeld
<1>5. CASE Goes(w, "last") /\ UNCHANGED faults
  <2>1. Moves(w) /\ Goes2(w, "last")
    BY <1>2, <1>5, GoMoves DEF Steps
  <2>2. Sound(w)'
    BY <1>1, <1>2, <1>3, <2>1 DEF At, Goes2, Continues, Sound, KeysHeld,
       NotLetIn, LinkSoFar, Undoable, Here, There, LeftThere, Early, Late
  <2>. QED BY <1>1, <1>2, <1>3, <1>4, <1>5, <2>1, <2>2, QuietCounts DEF Good
<1>6. CASE Falters(w, IF job[w].op = "reverify" THEN "idle" ELSE "unpin")
  <2>1. /\ Moves(w) /\ faults' \in 0 .. MaxFaults
        /\ job'[w] = NoJob \/ Falters2(w, "unpin")
    BY <1>2, <1>6, FalterMoves DEF Steps
  <2>2. job'[w] = NoJob \/ Sound(w)'
    BY <1>1, <1>2, <1>3, <2>1 DEF At, Falters2, Continues, Sound, KeysHeld,
       NotLetIn, LinkSoFar, Undoable, Here, There, LeftThere, Early, Late
  <2>. QED BY <1>1, <1>2, <1>3, <1>4, <2>1, <2>2, EndSound, QuietCounts DEF Good
<1>. QED BY <1>5, <1>6 DEF Regrant

LEMMA LastGood ==
  ASSUME PeeringInv, NEW w \in Workers, Last(w)
  PROVE  Good(w)
<1>. DEFINE n == job[w].at
            m == job[w].to
<1>1. At(w, "last") /\ peers' = peers /\ loose' = loose /\ Quiet /\ Grants(n, m)
  BY DEF Last, Quiet
<1>2. /\ TypeOK /\ Sound(w) /\ n \in Nodes /\ m \in Nodes
      /\ ~At(w, "ungrant") /\ Between(w, n, m)
  BY <1>1, AtWork DEF At, Between
<1>3. Touches(w) /\ (peers[n][m].key \/ <<n, m>> \in loose' => Lets(w))
  BY <1>1, <1>2, GrantsTouch
<1>4. peers[n][m].key \/ <<n, m>> \in loose
  BY <1>1, <1>2 DEF At, Sound, KeysHeld
<1>5. Moves(w) /\ job'[w] = NoJob
  BY <1>2, EndMoves DEF Last
<1>. QED BY <1>1, <1>2, <1>3, <1>4, <1>5, EndSound, QuietCounts DEF Good, Quiet

LEMMA UngrantGood ==
  ASSUME PeeringInv, NEW w \in Workers, Ungrant(w)
  PROVE  Good(w)
<1>. DEFINE n == job[w].at
            m == job[w].to
<1>1. At(w, "ungrant") /\ peers' = peers /\ commands' = commands
  BY DEF Ungrant
<1>2. TypeOK /\ Sound(w) /\ n \in Nodes /\ m \in Nodes /\ n # m
  BY <1>1, AtWork DEF At
<1>3. CASE Revokes(n, m) /\ Withdraws(w) /\ UNCHANGED <<loose, faults>>
  <2>1. /\ Touches(w) /\ Lets(w) /\ m \notin grant'[n]
        /\ \A a, b \in Nodes : a # n \/ b # m => (b \in grant'[a] <=> b \in grant[a])
    BY <1>1, <1>2, <1>3, RevokesTouch
  <2>2. Moves(w) /\ (job'[w] = NoJob \/ (Goes2(w, "withdraw") /\ job[w].op = "dial"))
    BY <1>2, <1>3, WithdrawMoves
  <2>3. job'[w] = NoJob \/ Sound(w)'
    BY <1>1, <1>2, <1>3, <2>1, <2>2 DEF At, Goes2, Continues, Sound, KeysHeld,
       NotLetIn, LinkSoFar, Undoable, Here, There, LeftThere, Early, Late
  <2>. QED BY <1>1, <1>2, <1>3, <2>1, <2>2, <2>3, EndSound, QuietCounts DEF Good
<1>4. CASE /\ Falters(w, IF job[w].op = "dial" THEN "withdraw" ELSE "idle")
           /\ loose' = loose \cup {<<n, m>>} /\ UNCHANGED grant
  <2>1. /\ Moves(w) /\ faults' \in 0 .. MaxFaults
        /\ job'[w] = NoJob \/ (Falters2(w, "withdraw") /\ job[w].op = "dial")
    BY <1>2, <1>4, FalterMoves DEF Steps
  <2>2. Touches(w)
    BY <1>1, <1>2, <1>4, TouchesNothing
  <2>3. Lets(w)
    BY <1>1, <1>2, <1>4 DEF PeeringInv, GrantsArePeers, Lets, At
  <2>4. job'[w] = NoJob \/ Sound(w)'
    BY <1>1, <1>2, <1>4, <2>1 DEF At, Falters2, Continues, Sound, KeysHeld,
       NotLetIn, LinkSoFar, Undoable, Here, There, LeftThere, Early, Late
  <2>. QED BY <1>1, <1>2, <1>4, <2>1, <2>2, <2>3, <2>4, EndSound, QuietCounts DEF Good
<1>. QED BY <1>3, <1>4 DEF Ungrant

LEMMA KeepGrantGood ==
  ASSUME PeeringInv, NEW w \in Workers, KeepGrant(w)
  PROVE  Good(w)
<1>. DEFINE n == job[w].at
            m == job[w].to
            found == job[w].before.peers[n][m]
<1>1. At(w, "keepgrant") /\ UNCHANGED <<commands, faults>>
  BY DEF KeepGrant
<1>2. /\ TypeOK /\ Sound(w) /\ n \in Nodes /\ m \in Nodes /\ n # m /\ found \in Entry
      /\ ~At(w, "ungrant") /\ Between(w, n, m)
  BY <1>1, AtWork, JobTyped DEF At, Between
<1>3. Moves(w) /\ job'[w] = NoJob
  BY <1>2, EndMoves DEF KeepGrant
<1>4. CASE Grants(n, m) /\ UNCHANGED <<peers, loose>>
  <2>1. Touches(w) /\ (peers[n][m].key \/ <<n, m>> \in loose' => Lets(w))
    BY <1>2, <1>4, GrantsTouch
  <2>2. peers[n][m].key \/ <<n, m>> \in loose
    BY <1>1, <1>2 DEF At, Sound, KeysHeld
  <2>. QED BY <1>1, <1>2, <1>3, <1>4, <2>1, <2>2, EndSound, QuietCounts DEF Good
<1>5. CASE Reverted(n, m, job[w].prev, found) /\ LosesUncut(w, n, m) /\ UNCHANGED grant
  <2>1. loose \subseteq loose'
    BY <1>5 DEF LosesUncut, Loosens
  <2>2. CASE Sets(n, m, found)
    <3>1. peers'[n][m] = found
      BY <1>2, <2>2, SetsOne
    <3>2. peers[n][m].key /\ ~found.key /\ <<n, m>> \notin loose' =>
            job[w].alone /\ ~\E v \in Workers \ {w} : Granting(v, n, m)
      BY <1>1, <1>2, <1>5, <3>1, LosesNoted DEF At
    <3>3. peers[n][m].key /\ ~found.key /\ <<n, m>> \notin loose' => m \notin grant[n]
      BY <1>1, <1>2, <2>1, <3>2 DEF Sound, NotLetIn
    <3>. HIDE DEF found
    <3>4. Touches(w)
      BY <1>2, <1>5, <2>2, <3>2, SetsTouch
    <3>5. Lets(w)
      BY <1>2, <1>5, <2>2, <3>2, <3>3, SetsTouch
    <3>. QED BY <1>1, <1>2, <1>3, <1>5, <3>4, <3>5, EndSound, LosesCounts DEF Good
  <2>3. CASE peers' = peers
    BY <1>1, <1>2, <1>3, <1>5, <2>3, TouchesNothing, EndSound, LosesCounts DEF Good
  <2>. QED BY <1>5, <2>2, <2>3 DEF Reverted, Sets
<1>. QED BY <1>3, <1>4, <1>5 DEF KeepGrant

LEMMA CutGood ==
  ASSUME PeeringInv, NEW w \in Workers, Cut(w)
  PROVE  Good(w)
<1>. DEFINE n == job[w].at
            m == job[w].to
<1>1. At(w, "cut") /\ peers' = peers /\ loose' = loose /\ Quiet
  BY DEF Cut, Quiet
<1>2. TypeOK /\ Sound(w) /\ n \in Nodes /\ m \in Nodes /\ n # m /\ ~At(w, "ungrant")
  BY <1>1, AtWork DEF At
<1>3. CASE Ends(w) /\ UNCHANGED grant
  BY <1>1, <1>2, <1>3, EndMoves, MoveGood DEF At
<1>4. CASE Revokes(n, m) /\ Goes(w, "drop")
  <2>1. Touches(w) /\ Lets(w) /\ m \notin grant'[n]
    BY <1>1, <1>2, <1>4, RevokesTouch
  <2>2. Moves(w) /\ Goes2(w, "drop")
    BY <1>2, <1>4, GoMoves DEF Steps
  <2>3. Sound(w)'
    BY <1>1, <1>2, <2>1, <2>2 DEF At, Goes2, Continues, Sound, KeysHeld,
       NotLetIn, LinkSoFar, Undoable, Here, There, LeftThere, Early, Late
  <2>. QED BY <1>1, <1>2, <2>1, <2>2, <2>3, QuietCounts DEF Good, Quiet
<1>. QED BY <1>3, <1>4 DEF Cut

LEMMA DieGood ==
  ASSUME PeeringInv, NEW w \in Workers, Die(w)
  PROVE  Good(w)
<1>. DEFINE n == job[w].at
            m == job[w].to
<1>1. /\ TypeOK /\ ~At(w, "idle") /\ n \in Nodes /\ m \in Nodes
      /\ peers' = peers /\ grant' = grant /\ commands' = commands
      /\ loose' = IF At(w, "ungrant") THEN loose \cup {<<n, m>>} ELSE loose
  BY AtWork DEF Die
<1>2. Moves(w) /\ job'[w] = NoJob
  BY <1>1, EndMoves DEF Die
<1>3. faults' \in 0 .. MaxFaults
  BY <1>1, PeeringAssumption DEF Die, TypeOK
<1>4. Touches(w) /\ Lets(w)
  <2>1. Touches(w) /\ (~At(w, "ungrant") => Lets(w))
    BY <1>1, TouchesNothing
  <2>2. At(w, "ungrant") => Lets(w)
    BY <1>1 DEF PeeringInv, GrantsArePeers, Lets, At
  <2>. QED BY <2>1, <2>2
<1>5. Counts
  BY <1>1, <1>3, QuietCounts
<1>. QED BY <1>1, <1>2, <1>4, <1>5, EndSound DEF Good

-------------------------------------------------------------------------------
(* A command begins, and every step keeps the invariant. *)

\* A command that only learns whether it is still alone.
Same(v, alone) ==
  LET j == job[v]  k == job'[v] IN
  /\ (k.alone <=> alone) /\ k.step = j.step /\ k.op = j.op /\ k.at = j.at /\ k.to = j.to
  /\ k.existed = j.existed /\ k.created = j.created /\ k.prev = j.prev
  /\ k.failed = j.failed /\ k.before = j.before

LEMMA StartsJob ==
  ASSUME TypeOK, NEW w \in Workers, NEW n \in Nodes, NEW m \in Nodes,
         NEW op \in Ops, NEW step \in Steps, Starts(w, n, m, op, step)
  PROVE  /\ At(w, "idle") /\ UNCHANGED <<peers, grant, loose, faults>>
         /\ commands' \in 0 .. MaxCommands /\ job' \in [Workers -> Job]
         /\ \A v \in Workers \ {w} : Same(v, job[v].alone /\ ~About(v, n, m))
         /\ job'[w].op = op /\ job'[w].step = step /\ job'[w].at = n /\ job'[w].to = m
         /\ (job'[w].existed <=> peers[n][m] # NoEntry)
         /\ (job'[w].alone <=> ~\E u \in Workers : About(u, n, m)) /\ job'[w].failed = {}
         /\ job'[w].before.peers = peers /\ job'[w].before.grant = grant
<1>. DEFINE j == [NoJob EXCEPT !.op = op, !.step = step, !.at = n, !.to = m,
                               !.existed = peers[n][m] # NoEntry,
                               !.alone = ~ \E u \in Workers : About(u, n, m),
                               !.before = Snapshot]
<1>1. /\ Snapshot \in [peers : [Nodes -> [Nodes -> Entry]], grant : [Nodes -> SUBSET Nodes]]
      /\ Snapshot.peers = peers /\ Snapshot.grant = grant
  BY DEF Snapshot, TypeOK
<1>2. /\ j \in Job /\ j.op = op /\ j.step = step /\ j.at = n /\ j.to = m
      /\ j.existed = (peers[n][m] # NoEntry) /\ j.before = Snapshot
      /\ j.alone = (~ \E u \in Workers : About(u, n, m)) /\ j.failed = {}
  <2>1. NoJob \in Job
    BY NoJobTyped
  <2>2. (~ \E u \in Workers : About(u, n, m)) \in BOOLEAN /\ NoJob.failed = {}
    BY DEF NoJob
  <2>. HIDE DEF NoJob
  <2>. QED BY <1>1, <2>1, <2>2 DEF Job
<1>3. \A v \in Workers : job'[v] = IF v = w THEN j ELSE [job[v] EXCEPT !.alone = @ /\ ~ About(v, n, m)]
  BY DEF Starts
<1>4. ASSUME NEW v \in Workers, NEW alone \in BOOLEAN
      PROVE  LET k == [job[v] EXCEPT !.alone = alone] IN
             /\ k \in Job /\ k.alone = alone /\ k.step = job[v].step /\ k.op = job[v].op
             /\ k.at = job[v].at /\ k.to = job[v].to /\ k.existed = job[v].existed
             /\ k.created = job[v].created /\ k.prev = job[v].prev /\ k.failed = job[v].failed
             /\ k.before = job[v].before
  BY JobTyped DEF Job
<1>8. \A v \in Workers : (job[v].alone /\ ~About(v, n, m)) \in BOOLEAN
  OBVIOUS
<1>5. At(w, "idle") /\ UNCHANGED <<peers, grant, loose, faults>> /\ commands' \in 0 .. MaxCommands
  <2>1. At(w, "idle") /\ UNCHANGED <<peers, grant, loose, faults>>
        /\ commands < MaxCommands /\ commands' = commands + 1
    BY DEF Starts
  <2>2. commands \in 0 .. MaxCommands
    BY DEF TypeOK
  <2>. QED BY <2>1, <2>2, PeeringAssumption
<1>6. job' = [v \in Workers |-> job'[v]]
  BY DEF Starts
<1>. HIDE DEF j
<1>. DEFINE alone(v) == job[v].alone /\ ~About(v, n, m)
            k(v) == [job[v] EXCEPT !.alone = alone(v)]
<1>10. \A v \in Workers \ {w} : job'[v] = k(v)
  BY <1>3
<1>11. ASSUME NEW v \in Workers
       PROVE  /\ k(v) \in Job /\ k(v).alone = alone(v) /\ k(v).step = job[v].step
              /\ k(v).op = job[v].op /\ k(v).at = job[v].at /\ k(v).to = job[v].to
              /\ k(v).existed = job[v].existed /\ k(v).created = job[v].created
              /\ k(v).prev = job[v].prev /\ k(v).failed = job[v].failed
              /\ k(v).before = job[v].before
  BY <1>4, <1>8
<1>. HIDE DEF k
<1>7. job' \in [Workers -> Job]
  <2>1. \A v \in Workers : job'[v] \in Job
    BY <1>2, <1>3, <1>10, <1>11
  <2>. QED BY <1>6, <2>1
<1>9. \A v \in Workers \ {w} : Same(v, job[v].alone /\ ~About(v, n, m))
  <2>. SUFFICES ASSUME NEW v \in Workers \ {w} PROVE Same(v, alone(v))
    OBVIOUS
  <2>1. job'[v] = k(v) /\ v \in Workers
    BY <1>10
  <2>. HIDE DEF alone
  <2>. QED BY <2>1, <1>11 DEF Same
<1>12. job'[w] = j
  BY <1>3
<1>. HIDE DEF alone
<1>. QED BY <1>1, <1>2, <1>5, <1>7, <1>9, <1>12

\* How the commands begin.
LEMMA BeginStarts ==
  ASSUME TypeOK, NEW w \in Workers, Begin(w)
  PROVE  \E n \in Nodes : \E m \in Nodes \ {n} : \E op \in Ops, step \in Steps :
           /\ Starts(w, n, m, op, step)
           /\ \/ op = "dial" /\ step = "probe" /\ peers[n][m] = NoEntry
              \/ op = "dial" /\ step = "first" /\ peers[n][m].addr /\ ~peers[n][m].key
              \/ op = "reverify" /\ step = "route" /\ peers[n][m].addr /\ peers[n][m].key
              \/ op = "call" /\ step = "call" /\ peers[n][m].addr /\ peers[n][m].key
              \/ op = "activate" /\ step = "hello" /\ peers[n][m].addr /\ ~peers[n][m].key
              \/ op = "accept" /\ step = "keep"
              \/ op = "remove" /\ step = "cut"
              \/ op = "remove" /\ step = "drop" /\ ~peers[n][m].key
BY DEF Begin, Dial, Call, Accept, Remove, Ops, Steps

LEMMA BeginKeeps ==
  ASSUME PeeringInv, NEW w \in Workers, Begin(w)
  PROVE  PeeringInv'
<1>1. TypeOK
  BY DEF PeeringInv, TypeInv
<1>2. PICK n \in Nodes : \E m \in Nodes \ {n} : \E op \in Ops, step \in Steps :
           /\ Starts(w, n, m, op, step)
           /\ \/ op = "dial" /\ step = "probe" /\ peers[n][m] = NoEntry
              \/ op = "dial" /\ step = "first" /\ peers[n][m].addr /\ ~peers[n][m].key
              \/ op = "reverify" /\ step = "route" /\ peers[n][m].addr /\ peers[n][m].key
              \/ op = "call" /\ step = "call" /\ peers[n][m].addr /\ peers[n][m].key
              \/ op = "activate" /\ step = "hello" /\ peers[n][m].addr /\ ~peers[n][m].key
              \/ op = "accept" /\ step = "keep"
              \/ op = "remove" /\ step = "cut"
              \/ op = "remove" /\ step = "drop" /\ ~peers[n][m].key
  BY <1>1, BeginStarts
<1>3. PICK m \in Nodes \ {n}, op \in Ops, step \in Steps :
           /\ Starts(w, n, m, op, step)
           /\ \/ op = "dial" /\ step = "probe" /\ peers[n][m] = NoEntry
              \/ op = "dial" /\ step = "first" /\ peers[n][m].addr /\ ~peers[n][m].key
              \/ op = "reverify" /\ step = "route" /\ peers[n][m].addr /\ peers[n][m].key
              \/ op = "call" /\ step = "call" /\ peers[n][m].addr /\ peers[n][m].key
              \/ op = "activate" /\ step = "hello" /\ peers[n][m].addr /\ ~peers[n][m].key
              \/ op = "accept" /\ step = "keep"
              \/ op = "remove" /\ step = "cut"
              \/ op = "remove" /\ step = "drop" /\ ~peers[n][m].key
  BY <1>2
<1>4. /\ At(w, "idle") /\ UNCHANGED <<peers, grant, loose, faults>>
      /\ commands' \in 0 .. MaxCommands /\ job' \in [Workers -> Job]
      /\ \A v \in Workers \ {w} : Same(v, job[v].alone /\ ~About(v, n, m))
      /\ job'[w].op = op /\ job'[w].step = step /\ job'[w].at = n /\ job'[w].to = m
      /\ (job'[w].existed <=> peers[n][m] # NoEntry)
      /\ (job'[w].alone <=> ~\E u \in Workers : About(u, n, m)) /\ job'[w].failed = {}
      /\ job'[w].before.peers = peers /\ job'[w].before.grant = grant
  <2>1. m \in Nodes /\ Starts(w, n, m, op, step)
    BY <1>3
  <2>2. /\ At(w, "idle") /\ UNCHANGED <<peers, grant, loose, faults>>
        /\ commands' \in 0 .. MaxCommands /\ job' \in [Workers -> Job]
        /\ \A v \in Workers \ {w} : Same(v, job[v].alone /\ ~About(v, n, m))
        /\ job'[w].op = op /\ job'[w].step = step /\ job'[w].at = n /\ job'[w].to = m
        /\ (job'[w].existed <=> peers[n][m] # NoEntry)
        /\ (job'[w].alone <=> ~\E u \in Workers : About(u, n, m)) /\ job'[w].failed = {}
        /\ job'[w].before.peers = peers /\ job'[w].before.grant = grant
    BY <1>1, <2>1, StartsJob
  <2>. QED BY <2>2
<1>5. TypeInv'
  <2>1. TypeOK'
    BY <1>1, <1>4 DEF TypeOK
  <2>2. Named'
    BY <1>3, <1>4 DEF PeeringInv, TypeInv, Named, At, Same
  <2>. QED BY <2>1, <2>2 DEF TypeInv
<1>6. Alone'
  <2>1. ~At(w, "idle")'
    BY <1>3, <1>4 DEF At
  <2>2. ASSUME NEW v \in Workers \ {w}, job'[v].alone
        PROVE  ~At(v, "idle")' /\ \A u \in Workers \ {v} : ~About(u, job[v].at, job[v].to)'
    <3>1. job[v].alone /\ ~About(v, n, m)
      BY <1>4, <2>2 DEF Same
    <3>2. ~At(v, "idle") /\ \A u \in Workers \ {v} : ~About(u, job[v].at, job[v].to)
      BY <3>1 DEF PeeringInv, Alone
    <3>. QED BY <1>4, <3>1, <3>2 DEF Same, At, About
  <2>3. job'[w].alone => \A u \in Workers \ {w} : ~About(u, job[w].at, job[w].to)'
    BY <1>4 DEF Same, About
  <2>. QED BY <2>1, <2>2, <2>3 DEF Alone
<1>7. GrantsArePeers'
  <2>. SUFFICES ASSUME NEW x \in Nodes, NEW y \in Nodes, y \in grant[x], <<x, y>> \notin loose,
                       ~peers[x][y].key
                PROVE  \E v \in Workers : job'[v].step = "ungrant" /\ job'[v].at = x /\ job'[v].to = y
    BY <1>4 DEF GrantsArePeers, At
  <2>1. PICK v \in Workers : At(v, "ungrant") /\ job[v].at = x /\ job[v].to = y
    BY DEF PeeringInv, GrantsArePeers
  <2>2. v # w
    BY <1>4, <2>1 DEF At
  <2>. QED BY <1>4, <2>1, <2>2 DEF At, Same
<1>8. ASSUME NEW v \in Workers \ {w} PROVE Sound(v)'
  <2>1. Sound(v) /\ Same(v, job[v].alone /\ ~About(v, n, m)) /\ (job'[v].alone => job[v].alone)
    BY <1>4 DEF PeeringInv, Same
  <2>2. KeysHeld(v)'
    BY <1>4, <2>1 DEF Sound, KeysHeld, Same
  <2>3. (job[v].alone => NotLetIn(v) /\ LinkSoFar(v))'
    BY <1>4, <2>1 DEF Sound, NotLetIn, LinkSoFar, Same, At
  <2>4. Undoable(v)' => Undoable(v)
    BY <2>1 DEF Undoable, Same
  <2>5. (Undoable(v) => Here(v))'
    BY <1>4, <2>1, <2>4 DEF Sound, Here, Same
  <2>6. (Undoable(v) => There(v))'
    BY <1>4, <2>1, <2>4 DEF Sound, There, LeftThere, Same
  <2>. QED BY <2>2, <2>3, <2>5, <2>6 DEF Sound
<1>9. Sound(w)'
  <2>1. /\ n \in Nodes /\ m \in Nodes /\ peers[n][m] \in Entry /\ peers[m][n] \in Entry
    BY <1>1, <1>3 DEF TypeOK
  <2>2. peers[n][m] = NoEntry <=> ~peers[n][m].key /\ ~peers[n][m].addr
    BY <2>1, EntryTyped
  <2>3. ASSUME ~\E u \in Workers : About(u, n, m), ~peers[n][m].key
        PROVE  m \notin grant[n] \/ <<n, m>> \in loose
    BY <2>1, <2>3 DEF PeeringInv, GrantsArePeers, About, At
  <2>4. (KeysHeld(w) /\ (job[w].alone => NotLetIn(w)))'
    BY <1>3, <1>4, <2>3 DEF KeysHeld, NotLetIn, At
  <2>5. (job[w].alone => LinkSoFar(w))'
    BY <1>3, <1>4 DEF LinkSoFar, At
  <2>6. (Undoable(w) => Here(w))'
    BY <1>3, <1>4, <2>2 DEF Undoable, Here
  <2>7. (Undoable(w) => There(w))'
    BY <1>3, <1>4, <2>1, EntryTyped DEF Undoable, There, Early, Late
  <2>. QED BY <2>4, <2>5, <2>6, <2>7 DEF Sound
<1>. QED BY <1>5, <1>6, <1>7, <1>8, <1>9 DEF PeeringInv

LEMMA StepGood ==
  ASSUME PeeringInv, NEW w \in Workers, Step(w)
  PROVE  Good(w) /\ ~At(w, "idle")
<1>1. Good(w)
  BY ProbeGood, PendGood, TheirsGood, TheirGrantGood, HelloGood, PinGood, GrantGood, RouteGood,
     BackGood, RegrantGood, LastGood, UnrouteGood, UnpinGood, UngrantGood, WithdrawGood,
     UnpendGood, AnsweredGood, KeepGood, KeepGrantGood, CutGood, DropGood, DieGood DEF Step
<1>2. ~At(w, "idle")
  BY DEF Step, At, Probe, Pend, Theirs, TheirGrant, Hello, Pin, Grant, Route, Back, Regrant,
         Last, Unroute, Unpin, Ungrant, Withdraw, Unpend, Answered, Keep, KeepGrant, Cut, Drop, Die
<1>. QED BY <1>1, <1>2

LEMMA StepKeeps ==
  ASSUME PeeringInv, NEW w \in Workers, Step(w)
  PROVE  PeeringInv'
<1>1. /\ Moves(w) /\ Counts /\ Touches(w) /\ Lets(w) /\ Sound(w)'
      /\ ~At(w, "idle")
  BY StepGood DEF Good
<1>2. /\ TypeOK /\ job[w].at \in Nodes /\ job[w].to \in Nodes /\ job[w].at # job[w].to
  BY <1>1, AtWork
<1>3. /\ job' \in [Workers -> Job] /\ \A v \in Workers \ {w} : job'[v] = job[v]
      /\ job'[w] = NoJob \/ (Continues(w) /\ (job'[w].alone => job[w].alone))
  BY <1>1 DEF Moves
<1>4. TypeInv'
  <2>1. \A n \in Nodes : ~Between(w, n, n)
    BY <1>2 DEF Between
  <2>2. TypeOK'
    BY <1>1, <1>2, <1>3, <2>1 DEF TypeOK, Counts, Touches
  <2>3. Named'
    BY <1>2, <1>3, NoJobTyped DEF PeeringInv, TypeInv, Named, At, Continues
  <2>. QED BY <2>2, <2>3 DEF TypeInv
<1>5. \A v \in Workers, x, y \in Nodes : v # w => (About(v, x, y)' <=> About(v, x, y))
  BY <1>3 DEF About
<1>6. Alone'
  <2>1. ASSUME job'[w].alone
        PROVE  ~At(w, "idle")' /\ \A u \in Workers \ {w} : ~About(u, job[w].at, job[w].to)'
    <3>1. Continues(w) /\ job[w].alone
      BY <1>3, <2>1, NoJobTyped
    <3>2. \A u \in Workers \ {w} : ~About(u, job[w].at, job[w].to)
      BY <3>1 DEF PeeringInv, Alone
    <3>. QED BY <1>3, <3>1, <3>2 DEF Continues, About, At
  <2>2. ASSUME NEW v \in Workers \ {w}, job'[v].alone
        PROVE  ~At(v, "idle")' /\ \A u \in Workers \ {v} : ~About(u, job[v].at, job[v].to)'
    <3>1. job'[v] = job[v] /\ job[v].alone
      BY <1>3, <2>2
    <3>2. ~At(v, "idle") /\ \A u \in Workers \ {v} : ~About(u, job[v].at, job[v].to)
      BY <3>1 DEF PeeringInv, Alone
    <3>3. job[v].at \in Nodes /\ job[v].to \in Nodes
      BY <3>2 DEF PeeringInv, TypeInv, Named
    <3>4. ~About(w, job[v].at, job[v].to)'
      <4>1. CASE job'[w] = NoJob
        BY <3>1, <3>3, <4>1, NoJobTyped DEF About
      <4>2. CASE Continues(w)
        BY <3>1, <3>2, <4>2 DEF About, Continues
      <4>. QED BY <1>3, <4>1, <4>2
    <3>. QED BY <1>3, <3>1, <3>2, <3>4 DEF At, About
  <2>. QED BY <2>1, <2>2 DEF Alone
<1>7. GrantsArePeers'
  <2>. SUFFICES ASSUME NEW x \in Nodes, NEW y \in Nodes, y \in grant'[x], <<x, y>> \notin loose',
                       ~peers'[x][y].key
                PROVE  \E v \in Workers : job'[v].step = "ungrant" /\ job'[v].at = x /\ job'[v].to = y
    BY DEF GrantsArePeers, At
  <2>1. CASE job'[w].step = "ungrant" /\ x = job[w].at /\ y = job[w].to
    BY <1>3, <2>1, NoJobTyped DEF Continues
  <2>2. CASE /\ y \in grant[x] /\ ~peers[x][y].key
             /\ ~(At(w, "ungrant") /\ x = job[w].at /\ y = job[w].to)
    <3>1. <<x, y>> \notin loose
      BY <1>1 DEF Counts
    <3>2. PICK v \in Workers : At(v, "ungrant") /\ job[v].at = x /\ job[v].to = y
      BY <2>2, <3>1 DEF PeeringInv, GrantsArePeers
    <3>. QED BY <1>3, <2>2, <3>2 DEF At
  <2>. QED BY <1>1, <2>1, <2>2 DEF Lets
<1>8. ASSUME NEW v \in Workers \ {w} PROVE Sound(v)'
  <2>. DEFINE n == job[v].at
              m == job[v].to
  <2>1. job'[v] = job[v] /\ Sound(v) /\ loose \subseteq loose'
    BY <1>1, <1>3 DEF PeeringInv, Counts
  <2>2. CASE At(v, "idle")
    <3>1. ~job[v].alone
      BY <2>2 DEF PeeringInv, Alone
    <3>. QED BY <2>1, <2>2, <3>1 DEF Sound, KeysHeld, Undoable, At
  <2>3. CASE ~At(v, "idle")
    <3>1. n \in Nodes /\ m \in Nodes /\ n # m
      BY <2>3 DEF PeeringInv, TypeInv, Named
    <3>2. KeysHeld(v)'
      <4>1. job[v].step \in {"call", "grant", "regrant", "last", "keepgrant"} => Granting(v, n, m)
        BY DEF Granting
      <4>2. job[v].step \in {"theirgrant", "back", "regrant"} => Granting(v, m, n)
        BY DEF Granting
      <4>3. ASSUME NEW x \in Nodes, NEW y \in Nodes, Granting(v, x, y),
                   peers[x][y].key \/ <<x, y>> \in loose
            PROVE  peers'[x][y].key \/ <<x, y>> \in loose'
        BY <1>1, <2>1, <4>3 DEF Touches
      <4>. QED BY <2>1, <3>1, <4>1, <4>2, <4>3 DEF Sound, KeysHeld
    <3>3. ASSUME job[v].alone
          PROVE  /\ peers'[n][m] = peers[n][m] /\ (m \in grant'[n] <=> m \in grant[n])
                 /\ peers'[m][n] = peers[m][n] /\ (n \in grant'[m] <=> n \in grant[m])
      <4>1. ~About(w, n, m)
        BY <3>3 DEF PeeringInv, Alone
      <4>2. ~Between(w, n, m) /\ ~Between(w, m, n)
        BY <4>1 DEF About, Between
      <4>. QED BY <1>1, <3>1, <4>2 DEF Touches
    <3>4. (job[v].alone => NotLetIn(v) /\ LinkSoFar(v))'
      BY <2>1, <3>3 DEF Sound, NotLetIn, LinkSoFar, At
    <3>5. (Undoable(v) => Here(v))'
      BY <2>1, <3>3 DEF Sound, Undoable, Here
    <3>6. (Undoable(v) => There(v))'
      BY <2>1, <3>3 DEF Sound, Undoable, There
    <3>. QED BY <3>2, <3>4, <3>5, <3>6 DEF Sound
  <2>. QED BY <2>2, <2>3
<1>. QED BY <1>1, <1>4, <1>6, <1>7, <1>8 DEF PeeringInv

LEMMA PeeringInvInit == Init => PeeringInv
<1>. SUFFICES ASSUME Init PROVE PeeringInv
  OBVIOUS
<1>1. TypeOK
  <2>1. NoEntry \in Entry /\ NoJob \in Job
    BY EntryTyped, NoJobTyped
  <2>2. peers \in [Nodes -> [Nodes -> Entry]] /\ grant \in [Nodes -> SUBSET Nodes]
    BY <2>1 DEF Init
  <2>3. \A n \in Nodes : peers[n][n] = NoEntry /\ n \notin grant[n]
    BY DEF Init
  <2>4. job \in [Workers -> Job] /\ loose \subseteq Nodes \X Nodes
    BY <2>1 DEF Init
  <2>5. commands \in 0 .. MaxCommands /\ faults \in 0 .. MaxFaults
    BY PeeringAssumption DEF Init
  <2>. QED BY <2>2, <2>3, <2>4, <2>5 DEF TypeOK
<1>2. \A w \in Workers : job[w].step = "idle" /\ ~job[w].alone
  BY NoJobTyped DEF Init
<1>3. Named /\ Alone /\ GrantsArePeers
  BY <1>2 DEF Named, At, Alone, GrantsArePeers, Init
<1>4. ASSUME NEW w \in Workers PROVE Sound(w)
  BY <1>2 DEF Sound, KeysHeld, Undoable
<1>. QED BY <1>1, <1>3, <1>4 DEF PeeringInv, TypeInv

LEMMA PeeringInvNext == PeeringInv /\ [Next]_vars => PeeringInv'
<1>1. PeeringInv /\ Next => PeeringInv'
  BY BeginKeeps, StepKeeps DEF Next
<1>2. PeeringInv /\ UNCHANGED vars => PeeringInv'
  <2>. SUFFICES ASSUME PeeringInv, UNCHANGED vars PROVE PeeringInv'
    OBVIOUS
  <2>1. /\ peers' = peers /\ grant' = grant /\ job' = job /\ loose' = loose
        /\ commands' = commands /\ faults' = faults
    BY DEF vars
  <2>2. TypeInv' /\ Alone' /\ GrantsArePeers'
    <3>1. TypeOK' /\ Named'
      BY <2>1 DEF PeeringInv, TypeInv, TypeOK, Named, At
    <3>2. Alone'
      BY <2>1 DEF PeeringInv, Alone, About, At
    <3>3. GrantsArePeers'
      BY <2>1 DEF PeeringInv, GrantsArePeers, At
    <3>. QED BY <3>1, <3>2, <3>3 DEF TypeInv
  <2>3. ASSUME NEW w \in Workers PROVE Sound(w)'
    <3>1. Sound(w)
      BY DEF PeeringInv
    <3>2. KeysHeld(w)' = KeysHeld(w) /\ NotLetIn(w)' = NotLetIn(w) /\ LinkSoFar(w)' = LinkSoFar(w)
      BY <2>1 DEF KeysHeld, NotLetIn, LinkSoFar, At
    <3>3. Undoable(w)' = Undoable(w) /\ Here(w)' = Here(w) /\ There(w)' = There(w)
      BY <2>1 DEF Undoable, Here, There
    <3>. QED BY <2>1, <3>1, <3>2, <3>3 DEF Sound
  <2>. QED BY <2>2, <2>3 DEF PeeringInv
<1>. QED BY <1>1, <1>2

-------------------------------------------------------------------------------
(* What a command has done when it ends. *)

LEMMA EndedByStep ==
  ASSUME PeeringInv, [Next]_vars, NEW w \in Workers, Ended(w)
  PROVE  Step(w) /\ ~Die(w)
<1>1. TypeOK /\ job[w].step # "idle" /\ job'[w].step = "idle" /\ faults' = faults
  BY DEF PeeringInv, TypeInv, Ended
<1>2. PICK v \in Workers : Begin(v) \/ Step(v)
  BY <1>1 DEF Next, vars
<1>3. ~Begin(v)
  <2>. SUFFICES ASSUME Begin(v) PROVE FALSE
    OBVIOUS
  <2>1. PICK n, m, op, step : Starts(v, n, m, op, step)
    BY DEF Begin, Dial, Call, Accept, Remove
  <2>2. At(v, "idle") /\ (v # w => \E alone \in BOOLEAN : job'[w] = [job[w] EXCEPT !.alone = alone])
    BY <1>1, <2>1, JobTyped DEF Starts
  <2>3. \A alone \in BOOLEAN : [job[w] EXCEPT !.alone = alone].step = job[w].step
    BY <1>1, JobTyped DEF Job
  <2>. QED BY <1>1, <2>2, <2>3 DEF At
<1>4. v = w
  BY <1>1, <1>2, <1>3, StepGood DEF Good, Moves
<1>5. ~Die(w)
  BY <1>1 DEF Die, TypeOK
<1>. QED BY <1>2, <1>3, <1>4, <1>5

LEMMA LastLinks ==
  ASSUME PeeringInv, NEW w \in Workers, Last(w), job[w].alone,
         NEW n \in Nodes, NEW m \in Nodes, job[w].at = n, job[w].to = m
  PROVE  Linked(n, m)'
<1>1. At(w, "last") /\ peers' = peers /\ Grants(n, m)
  BY DEF Last
<1>2. TypeOK /\ Sound(w) /\ n # m
  BY <1>1, AtWork DEF At
<1>3. /\ peers[n][m].key /\ peers[n][m].addr /\ peers[m][n].key /\ peers[m][n].addr
      /\ n \in grant[m]
  BY <1>1, <1>2 DEF At, Sound, LinkSoFar
<1>4. m \in grant'[n] /\ n \in grant'[m]
  BY <1>1, <1>2, <1>3, GrantsOne
<1>. QED BY <1>1, <1>2, <1>3, <1>4 DEF Linked

\* What a dial or an activation leaves that is taken back on both sides.
Restores(w) == LET j == job[w] IN
  /\ EntryAsBefore(j, j.at, j.to)
  /\ "ungrant" \notin j.failed => GrantAsBefore(j, j.at, j.to)
  /\ ~LeftThere(j) => EntryAsBefore(j, j.to, j.at) /\ GrantAsBefore(j, j.to, j.at)

\* The two entries of a command, after a step and when the command began.
LEMMA EntriesTyped ==
  ASSUME TypeOK, NEW w \in Workers, Touches(w), NEW n \in Nodes, NEW m \in Nodes
  PROVE  peers'[n][m] \in Entry /\ job[w].before.peers[n][m] \in Entry
<1>1. peers'[n][m] \in Entry
  BY DEF Touches
<1>2. job[w].before.peers[n][m] \in Entry
  BY JobTyped
<1>. QED BY <1>1, <1>2

LEMMA Restored ==
  ASSUME PeeringInv, NEW w \in Workers, Step(w), Undoable(w),
         LET j == job[w] IN
           /\ peers'[j.at][j.to].key <=> j.before.peers[j.at][j.to].key
           /\ peers'[j.at][j.to].addr <=> j.before.peers[j.at][j.to].addr
           /\ "ungrant" \notin j.failed => (j.to \in grant'[j.at] => j.to \in j.before.grant[j.at])
           /\ ~LeftThere(j) =>
                /\ peers'[j.to][j.at].key <=> j.before.peers[j.to][j.at].key
                /\ peers'[j.to][j.at].addr <=> j.before.peers[j.to][j.at].addr
                /\ j.at \in grant'[j.to] => j.at \in j.before.grant[j.to]
  PROVE  Restores(w)
<1>. DEFINE j == job[w]
<1>1. Touches(w) /\ ~At(w, "idle")
  BY StepGood DEF Good
<1>2. TypeOK /\ j.at \in Nodes /\ j.to \in Nodes
  BY <1>1, AtWork
<1>3. /\ peers'[j.at][j.to] \in Entry /\ j.before.peers[j.at][j.to] \in Entry
      /\ peers'[j.to][j.at] \in Entry /\ j.before.peers[j.to][j.at] \in Entry
  BY <1>1, <1>2, EntriesTyped
<1>4. EntryAsBefore(j, j.at, j.to)
  BY <1>3, EntriesEqual DEF EntryAsBefore
<1>5. ~LeftThere(j) => EntryAsBefore(j, j.to, j.at)
  BY <1>3, EntriesEqual DEF EntryAsBefore
<1>. QED BY <1>4, <1>5 DEF Restores, GrantAsBefore

LEMMA FailureRestores ==
  ASSUME PeeringInv, NEW w \in Workers, Step(w), ~Die(w), Undoable(w), Ended(w),
         job[w].step \notin {"last", "invite"}
  PROVE  Restores(w)
<1>. DEFINE n == job[w].at
            m == job[w].to
<1>1. /\ TypeOK /\ n \in Nodes /\ m \in Nodes /\ n # m
      /\ Here(w) /\ There(w)
  BY StepGood, AtWork DEF Sound
<1>2. \A s \in Steps \ {"idle"} : ~Goes(w, s)
  BY <1>1, GoMoves DEF Ended, Goes2
<1>3. /\ ~Goes(w, "pend") /\ ~Goes(w, "theirs") /\ ~Goes(w, "theirgrant") /\ ~Goes(w, "hello")
      /\ ~Goes(w, "probe") /\ ~Goes(w, "pin") /\ ~Goes(w, "grant") /\ ~Goes(w, "route")
      /\ ~Goes(w, "back") /\ ~Goes(w, "regrant") /\ ~Goes(w, "last") /\ ~Goes(w, "unroute")
      /\ ~Goes(w, "unpin") /\ ~Goes(w, "ungrant") /\ ~Goes(w, "withdraw") /\ ~Goes(w, "unpend")
      /\ ~Goes(w, "invite")
  BY <1>2 DEF Steps
<1>4. \A s \in Steps : ~Falters(w, s)
  BY <1>1 DEF Ended, Falters, TypeOK
<1>5. CASE Probe(w)
  <2>1. At(w, "probe") /\ peers' = peers /\ grant' = grant
    BY <1>5 DEF Probe
  <2>. QED BY <1>1, <2>1, Restored DEF At, Here, There, Undoable, Early, Late
<1>6. CASE Pend(w)
  <2>1. At(w, "pend") /\ grant' = grant
    BY <1>6 DEF Pend, At
  <2>2. ~job[w].existed /\ peers[n][m].key
    BY <1>3, <1>6, <2>1 DEF Pend
  <2>. QED BY <1>1, <2>1, <2>2 DEF At, Here
<1>7. CASE Hello(w)
  <2>1. /\ At(w, "first") \/ At(w, "hello")
        /\ peers' = peers /\ grant' = grant /\ Withdraws(w)
    BY <1>3, <1>7 DEF Hello
  <2>2. job[w].op = "activate"
    BY <1>3, <2>1 DEF Withdraws, Undoable
  <2>. QED BY <1>1, <2>1, <2>2, Restored DEF At, Here, There, Undoable, Early, Late
<1>8. CASE Ungrant(w)
  <2>1. At(w, "ungrant") /\ peers' = peers /\ Revokes(n, m) /\ Withdraws(w)
    BY <1>4, <1>8 DEF Ungrant, Steps
  <2>2. job[w].op = "activate"
    BY <1>3, <2>1 DEF Withdraws, Undoable
  <2>3. m \notin grant'[n] /\ (n \in grant'[m] <=> n \in grant[m])
    BY <1>1, <2>1, RevokesOne
  <2>. QED BY <1>1, <2>1, <2>2, <2>3, Restored DEF At, Here, There, Undoable, Early, Late
<1>9. CASE Unpend(w)
  <2>1. At(w, "unpend") /\ grant' = grant
    BY <1>9 DEF Unpend
  <2>2. job[w].op = "dial"
    BY <1>1, <2>1 DEF At, There, Late, Undoable
  <2>3. ~peers[n][m].key /\ peers[n][m].addr
    BY <1>1, <2>1 DEF At, Here
  <2>4. /\ peers'[m][n] = peers[m][n]
        /\ peers'[n][m] = IF job[w].existed THEN peers[n][m] ELSE NoEntry
    BY <1>1, <1>9, <2>2, <2>3 DEF Unpend, TypeOK
  <2>. QED BY <1>1, <2>1, <2>2, <2>3, <2>4, EntryTyped, Restored
           DEF At, Here, There, Undoable, Early, Late
<1>10. ~(Theirs(w) \/ TheirGrant(w) \/ Back(w) \/ Unpin(w) \/ Withdraw(w))
  <2>1. ~Theirs(w)
    <3>. SUFFICES ASSUME Theirs(w) PROVE FALSE
      OBVIOUS
    <3>1. job' = [job EXCEPT ![w].step = "theirgrant", ![w].prev = peers[m][n],
                             ![w].created = peers[m][n] = NoEntry]
      BY <1>3 DEF Theirs
    <3>2. job'[w].step = "theirgrant"
      BY <1>1, <3>1, JobTyped DEF TypeOK, Job
    <3>. QED BY <3>2 DEF Ended
  <2>2. ~TheirGrant(w) /\ ~Withdraw(w)
    BY <1>3, <1>4 DEF TheirGrant, Withdraw, Steps
  <2>3. ~Back(w) /\ ~Unpin(w)
    BY <1>3 DEF Back, Unpin
  <2>. QED BY <2>1, <2>2, <2>3
<1>11. ~(Pin(w) \/ Grant(w) \/ Route(w) \/ Unroute(w))
  <2>1. ~Unwinds(w)
    BY <1>3 DEF Unwinds, Undoable
  <2>2. ~Route(w)
    <3>. SUFFICES ASSUME Route(w) PROVE FALSE
      OBVIOUS
    <3>1. job' = [job EXCEPT ![w].step = "back", ![w].prev = peers[m][n]]
      BY <2>1 DEF Route
    <3>2. job'[w].step = "back"
      BY <1>1, <3>1, JobTyped DEF TypeOK, Job
    <3>. QED BY <3>2 DEF Ended
  <2>. QED BY <1>3, <2>1, <2>2 DEF Pin, Grant, Unroute, Undoable
<1>12. ~(Regrant(w) \/ Last(w))
  BY <1>3, <1>4 DEF Regrant, Last, At, Steps
<1>13. ~(Answered(w) \/ Keep(w) \/ KeepGrant(w) \/ Cut(w) \/ Drop(w))
  BY <1>1 DEF Answered, Keep, KeepGrant, Cut, Drop, At, There, Undoable, Early, Late
<1>. QED BY <1>5, <1>6, <1>7, <1>8, <1>9, <1>10, <1>11, <1>12, <1>13 DEF Step

-------------------------------------------------------------------------------
(* The theorems. *)

\* Whatever commands run beside each other and whatever fails, every variable keeps its
\* type, and no installation becomes a peer of itself.
THEOREM PeeringTypes == Spec => []TypeOK
<1>1. PeeringInv => TypeOK
  BY DEF PeeringInv, TypeInv
<1>. QED BY <1>1, PeeringInvInit, PeeringInvNext, PTL DEF Spec

\* Whoever authorized_keys lets in is a peer whose key the configuration holds, or is
\* being shut out; except a pair whose key was lost to a command that overtook
\* another about the same two, or before a clean-up that failed.
THEOREM NoStrayGrants == Spec => []GrantsArePeers
<1>1. PeeringInv => GrantsArePeers
  BY DEF PeeringInv
<1>. QED BY <1>1, PeeringInvInit, PeeringInvNext, PTL DEF Spec

\* A dial with no other command about the two beside it that reports success leaves
\* both ends able to call each other.
THEOREM SuccessLinks == Spec => SuccessIsMutual
<1>. DEFINE Links == \A w \in Workers, n, m \in Nodes :
                       /\ At(w, "last") /\ Ended(w)
                       /\ job[w].alone /\ job[w].at = n /\ job[w].to = m
                       => Linked(n, m)'
<1>1. PeeringInv /\ [Next]_vars => Links
  <2>. SUFFICES ASSUME PeeringInv, [Next]_vars, NEW w \in Workers, NEW n \in Nodes, NEW m \in Nodes,
                       At(w, "last"), Ended(w), job[w].alone, job[w].at = n, job[w].to = m
                PROVE  Linked(n, m)'
    OBVIOUS
  <2>1. Step(w) /\ ~Die(w)
    BY EndedByStep
  <2>2. Last(w)
    BY <2>1 DEF At, Step, Probe, Pend, Theirs, TheirGrant, Hello, Pin, Grant, Route, Back, Regrant,
                Unroute, Unpin, Ungrant, Withdraw, Unpend, Answered, Keep, KeepGrant, Cut, Drop
  <2>. QED BY <2>2, LastLinks
<1>2. PeeringInv /\ [Next]_vars => [Links]_vars
  BY <1>1
<1>. HIDE DEF Links
<1>3. Spec => [][Links]_vars
  BY <1>2, PeeringInvInit, PeeringInvNext, PTL DEF Spec
<1>. QED BY <1>3 DEF Links, SuccessIsMutual

\* A dial or an activation that fails with no other command about the two beside it,
\* however far it had come and whichever replies it lost, leaves this side as it was,
\* except for a grant that it failed to cut, and the other side too, except for what
\* it could not take back there.
THEOREM FailuresRestore == Spec => FailedDialUndone
<1>. DEFINE Undone == \A w \in Workers : FailedFirst(w) =>
       LET j == job[w] IN
       /\ EntryAsBefore(j, j.at, j.to)
       /\ "ungrant" \notin j.failed => GrantAsBefore(j, j.at, j.to)
       /\ ~ LeftThere(j) => EntryAsBefore(j, j.to, j.at) /\ GrantAsBefore(j, j.to, j.at)
<1>1. PeeringInv /\ [Next]_vars => Undone
  <2>. SUFFICES ASSUME PeeringInv, [Next]_vars, NEW w \in Workers, FailedFirst(w)
                PROVE  Restores(w)
    BY DEF Restores
  <2>1. /\ Ended(w) /\ job[w].alone /\ job[w].step \notin {"last", "invite"}
        /\ job[w].op \in {"dial", "activate"}
        /\ job[w].op = "dial" => job[w].before.peers[job[w].to][job[w].at] = NoEntry
    BY DEF FailedFirst
  <2>2. Step(w) /\ ~Die(w)
    BY <2>1, EndedByStep
  <2>3. Undoable(w)
    BY <2>1, EntryTyped DEF Undoable
  <2>. QED BY <2>1, <2>2, <2>3, FailureRestores
<1>2. PeeringInv /\ [Next]_vars => [Undone]_vars
  BY <1>1
<1>. HIDE DEF Undone
<1>3. Spec => [][Undone]_vars
  BY <1>2, PeeringInvInit, PeeringInvNext, PTL DEF Spec
<1>. QED BY <1>3 DEF Undone, FailedDialUndone
================================================================================
