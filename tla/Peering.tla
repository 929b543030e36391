------------------------------ MODULE Peering ------------------------------
(***************************************************************************)
(* How two installations come to trust each other.  Each keeps, per peer,  *)
(* an entry in its configuration (an address to dial, and the peer's key   *)
(* once it is pinned) and a grant in its authorized_keys that lets the     *)
(* peer's key run the serve command.  "connection add" dials the other     *)
(* machine: it records a pending entry, has its own key accepted over      *)
(* there, makes first contact, which pins the other's key and grants it    *)
(* access here, and has the other dial back over the same route.  A run    *)
(* that fails takes back what it made, on both sides.  The other side may  *)
(* instead accept a key by hand; the daemon calls peers, which activates   *)
(* pending ones; and "connection rm" removes a peer.                       *)
(*                                                                         *)
(* A configuration transaction is one step, and so is a change of          *)
(* authorized_keys; between them the other commands take theirs.           *)
(***************************************************************************)
EXTENDS Integers, FiniteSets

CONSTANTS
  Nodes,        \* the installations
  NoNode,       \* no installation
  Workers,      \* commands and daemon calls that may run at the same time
  MaxCommands,  \* bound on the commands and calls started
  MaxFaults     \* bound on lost replies, failed clean-ups and deaths

ASSUME PeeringAssumption == NoNode \notin Nodes /\ MaxCommands \in Nat /\ MaxFaults \in Nat

\* An entry: is the key pinned, is there an address?  One that has neither is
\* refused by validation; it stands for a peer that is not configured.
Entry   == [key : BOOLEAN, addr : BOOLEAN]
NoEntry == [key |-> FALSE, addr |-> FALSE]

VARIABLES
  peers,     \* peers[n][m]: what n's configuration says of m
  grant,     \* grant[n]: the nodes whose key n's authorized_keys accepts
  job,       \* job[w]: the command that worker w runs
  loose,     \* history: the pairs <<n, m>> whose key n lost in a way that may leave
             \* m's access behind: to a command that overtook another about m on its
             \* way to granting it, or before a clean-up that failed
  commands,  \* commands and calls started
  faults     \* faults so far

vars == <<peers, grant, job, loose, commands, faults>>

Ops == {"none", "dial", "activate", "reverify", "call", "accept", "remove"}

Steps == {"idle", "first", "probe", "pend", "invite", "theirs", "theirgrant",
          "hello", "pin", "grant", "call", "route", "back", "regrant", "last", "unroute",
          "unpin", "ungrant", "withdraw", "unpend", "keep", "keepgrant", "cut", "drop"}

\* A command at node "at" that is about the node "to".
Job == [op : Ops, step : Steps, at : Nodes \cup {NoNode}, to : Nodes \cup {NoNode},
        existed : BOOLEAN,   \* there was an entry here when it began
        created : BOOLEAN,   \* it created the entry over there
        prev    : Entry,     \* the entry that it replaced over there, or
                             \* that it stored here when it accepts a key
        alone   : BOOLEAN,   \* history: no command about the same two ran beside it
        failed  : SUBSET Steps,  \* history: its lost replies and failed clean-ups
        before  : [peers : [Nodes -> [Nodes -> Entry]], grant : [Nodes -> SUBSET Nodes]]]

Snapshot == [peers |-> peers, grant |-> grant]

NoJob == [op |-> "none", step |-> "idle", at |-> NoNode, to |-> NoNode, existed |-> FALSE, created |-> FALSE,
          prev |-> NoEntry, alone |-> FALSE, failed |-> {},
          before |-> [peers |-> [n \in Nodes |-> [m \in Nodes |-> NoEntry]],
                      grant |-> [n \in Nodes |-> {}]]]

\* m answers a call of n: its grant lets n in, and its entry holds n's key.
Serves(m, n) == n \in grant[m] /\ peers[m][n].key

Sets(n, m, entry) == peers' = [peers EXCEPT ![n][m] = entry]
\* Slip: the grant is made for this installation's own key.
GrantsSelf(n, m)  == grant' = [grant EXCEPT ![n] = @ \cup {n}]

Grants(n, m)      == grant' = [grant EXCEPT ![n] = @ \cup {m}]
Revokes(n, m)     == grant' = [grant EXCEPT ![n] = @ \ {m}]

\* Worker v runs a command about n and m, at either of them.
About(v, n, m) == {job[v].at, job[v].to} = {n, m}

----------------------------------------------------------------------------
\* Commands begin, go on and end.

At(w, s) == job[w].step = s

Starts(w, n, m, op, step) ==
  /\ At(w, "idle") /\ commands < MaxCommands
  /\ job' = [v \in Workers |->
               IF v = w THEN [NoJob EXCEPT !.op = op, !.step = step, !.at = n, !.to = m,
                                           !.existed = peers[n][m] # NoEntry,
                                           !.alone = ~ \E u \in Workers : About(u, n, m),
                                           !.before = Snapshot]
                        ELSE [job[v] EXCEPT !.alone = @ /\ ~ About(v, n, m)]]
  /\ commands' = commands + 1
  /\ UNCHANGED <<peers, grant, loose, faults>>

Goes(w, s) == job' = [job EXCEPT ![w].step = s]
Ends(w)    == job' = [job EXCEPT ![w] = NoJob]

\* A lost reply, or a clean-up that fails: the command goes on to s or ends.
Falters(w, s) == /\ faults < MaxFaults /\ faults' = faults + 1
                 /\ job' = [job EXCEPT ![w] = IF s = "idle" THEN NoJob
                               ELSE [job[w] EXCEPT !.step = s, !.failed = job[w].failed \cup {job[w].step}]]

\* Where a command goes on when first contact or the dial-back fails.
Unwinds(w)  == IF job[w].op \in {"reverify", "call"}
                 THEN Ends(w) ELSE Goes(w, "unpin")
Withdraws(w) == IF job[w].op = "dial" THEN Goes(w, "withdraw") ELSE Ends(w)

\* Worker v has seen or stored m's key at n, and goes on to let m in there.
Granting(v, n, m) ==
  \/ /\ job[v].at = n /\ job[v].to = m
     /\ job[v].step \in {"call", "grant", "regrant", "last", "keepgrant"}
  \/ /\ job[v].at = m /\ job[v].to = n
     /\ job[v].step \in {"theirgrant", "back", "regrant"}

Loosens(n, m, how) ==
  loose' = IF peers[n][m].key /\ ~ peers'[n][m].key /\ how THEN loose \cup {<<n, m>>} ELSE loose

\* An entry loses its key, and the grant is cut with it or after it.
Loses(w, n, m) == Loosens(n, m, \E v \in Workers \ {w} : Granting(v, n, m))

\* An entry loses its key, and the grant was cut before it or never made: another
\* command may have granted access since.
LosesUncut(w, n, m) == Loosens(n, m, ~ job[w].alone)

Quiet == UNCHANGED <<loose, commands, faults>>

----------------------------------------------------------------------------
\* connection add, dialling m from n.

\* An active peer is only asked to dial back again; a pending one may have
\* accepted the invitation by now.
Dial(w, n, m) ==
  \/ /\ peers[n][m] = NoEntry
     /\ Starts(w, n, m, "dial", "probe")
  \/ /\ peers[n][m].addr /\ ~ peers[n][m].key
     /\ Starts(w, n, m, "dial", "first")
  \/ /\ peers[n][m].addr /\ peers[n][m].key
     /\ Starts(w, n, m, "reverify", "route")

\* Does the user's own login work over there, or is the machine unreachable?
Probe(w) ==
  /\ At(w, "probe")
  /\ Goes(w, "pend") \/ Goes(w, "invite") \/ Ends(w)
  /\ UNCHANGED <<peers, grant>> /\ Quiet

\* A new peer is recorded as pending.  Without a login the user is told what
\* to run on the other machine, and the command is done.
Pend(w) == LET n == job[w].at  m == job[w].to
               next == IF At(w, "pend") THEN Goes(w, "theirs") ELSE Ends(w)
           IN
  /\ At(w, "pend") \/ At(w, "invite")
  /\ \/ job[w].existed /\ next /\ UNCHANGED peers
     \/ /\ ~ job[w].existed /\ ~ peers[n][m].key
        /\ Sets(n, m, [key |-> FALSE, addr |-> TRUE]) /\ next
     \/ /\ ~ job[w].existed /\ peers[n][m].key
        /\ Ends(w) /\ UNCHANGED peers
  /\ UNCHANGED grant /\ Quiet

\* Over the login, the other machine accepts this one's key.
Theirs(w) == LET n == job[w].at  m == job[w].to IN
  /\ At(w, "theirs")
  /\ \/ /\ Sets(m, n, [peers[m][n] EXCEPT !.key = TRUE])
        /\ job' = [job EXCEPT ![w].step = "theirgrant", ![w].prev = peers[m][n],
                              ![w].created = peers[m][n] = NoEntry]
     \/ Goes(w, "unpend") /\ UNCHANGED peers        \* the login fails
  /\ UNCHANGED grant /\ Quiet

\* Undo an entry that was accepted, if it still is what was stored.
Reverted(n, m, stored, prev) ==
  peers' = IF peers[n][m] = stored THEN [peers EXCEPT ![n][m] = prev] ELSE peers

TheirGrant(w) == LET n == job[w].at  m == job[w].to IN
  /\ At(w, "theirgrant")
  /\ \/ Grants(m, n) /\ Goes(w, "hello") /\ UNCHANGED <<peers, loose, faults>>
     \/ /\ Grants(m, n) /\ Falters(w, "unpend")     \* the reply is lost
        /\ UNCHANGED <<peers, loose>>
     \/ /\ Reverted(m, n, [job[w].prev EXCEPT !.key = TRUE], job[w].prev) /\ LosesUncut(w, m, n)
        /\ Goes(w, "unpend") /\ UNCHANGED <<grant, faults>>
  /\ UNCHANGED commands

----------------------------------------------------------------------------
\* First contact: the hello names the key, which is pinned; the peer is
\* granted access; and it dials back.

Hello(w) == LET n == job[w].at  m == job[w].to IN
  /\ At(w, "first") \/ At(w, "hello")
  /\ \/ Serves(m, n) /\ Goes(w, "pin")
     \/ At(w, "first") /\ job[w].op = "dial" /\ n \notin grant[m] /\ Goes(w, "probe")
     \/ Withdraws(w)                                \* refused or unreachable
  /\ UNCHANGED <<peers, grant>> /\ Quiet

\* The entry may have been removed since; it is stored all the same.
Pin(w) == LET n == job[w].at  m == job[w].to IN
  /\ At(w, "pin")
  /\ \/ /\ peers[n][m] = NoEntry \/ peers[n][m].addr
        /\ Sets(n, m, [key |-> TRUE, addr |-> TRUE]) /\ Goes(w, "grant")
     \/ Unwinds(w) /\ UNCHANGED peers               \* changed, or not saved
  /\ UNCHANGED grant /\ Quiet

\* Every call that is answered ends with this grant, after the reply and
\* under no lock of the configuration.
Grant(w) == LET n == job[w].at  m == job[w].to IN
  /\ At(w, "grant")
  /\ \/ /\ Grants(n, m)
        /\ IF job[w].op = "call" THEN Ends(w) ELSE Goes(w, "route")
     \/ Unwinds(w) /\ UNCHANGED grant
  /\ UNCHANGED peers /\ Quiet

\* Slip: the peer dials the way back and does not store it.
RouteUnstored(w) == LET n == job[w].at  m == job[w].to IN
  /\ At(w, "route") /\ Serves(m, n)
  /\ job' = [job EXCEPT ![w].step = "back", ![w].prev = peers[m][n]]
  /\ UNCHANGED <<peers, grant>> /\ Quiet

\* The peer stores the way back and dials it.
Route(w) == LET n == job[w].at  m == job[w].to IN
  /\ At(w, "route")
  /\ \/ /\ Serves(m, n)
        /\ Sets(m, n, [peers[m][n] EXCEPT !.addr = TRUE])
        /\ job' = [job EXCEPT ![w].step = "back", ![w].prev = peers[m][n]]
     \/ Unwinds(w) /\ UNCHANGED peers
  /\ UNCHANGED grant /\ Quiet

Back(w) == LET n == job[w].at  m == job[w].to IN
  /\ At(w, "back")
  /\ \/ Serves(n, m) /\ Goes(w, "regrant")
     \/ Goes(w, "unroute")                          \* refused or unreachable
  /\ UNCHANGED <<peers, grant>> /\ Quiet

\* The dial-back is a call, which ends with a grant over there; so does the
\* call that asked for it, here.
Regrant(w) == LET n == job[w].at  m == job[w].to IN
  /\ At(w, "regrant") /\ Grants(m, n)
  /\ \/ Goes(w, "last") /\ UNCHANGED faults
     \/ Falters(w, IF job[w].op = "reverify" THEN "idle" ELSE "unpin")  \* the reply is lost
  /\ UNCHANGED <<peers, loose, commands>>

Last(w) == /\ At(w, "last") /\ Grants(job[w].at, job[w].to)
           /\ Ends(w)
           /\ UNCHANGED peers /\ Quiet

\* Slip: the address stays.
UnrouteNothing(w) == /\ At(w, "unroute") /\ Unwinds(w)
                     /\ UNCHANGED <<peers, grant>> /\ Quiet

\* The dial-back failed: the peer puts back the address it had.
Unroute(w) == LET n == job[w].at  m == job[w].to IN
  /\ At(w, "unroute")
  /\ peers' = IF peers[m][n].addr THEN [peers EXCEPT ![m][n].addr = job[w].prev.addr] ELSE peers
  /\ Unwinds(w)
  /\ UNCHANGED grant /\ Quiet

----------------------------------------------------------------------------
\* A first contact that fails returns this side to pending.

\* Slip: the key is forgotten and its grant stays.
UnpinOnly(w) == LET n == job[w].at  m == job[w].to IN
  /\ At(w, "unpin")
  /\ Sets(n, m, [peers[n][m] EXCEPT !.key = FALSE]) /\ Loses(w, n, m)
  /\ Withdraws(w)
  /\ UNCHANGED <<grant, commands, faults>>

Unpin(w) == LET n == job[w].at  m == job[w].to IN
  /\ At(w, "unpin")
  /\ Sets(n, m, [peers[n][m] EXCEPT !.key = FALSE]) /\ Loses(w, n, m)
  /\ Goes(w, "ungrant")
  /\ UNCHANGED <<grant, commands, faults>>

Ungrant(w) ==
  /\ At(w, "ungrant")
  /\ \/ /\ Revokes(job[w].at, job[w].to) /\ Withdraws(w)
        /\ UNCHANGED <<loose, faults>>
     \/ /\ Falters(w, IF job[w].op = "dial" THEN "withdraw" ELSE "idle")
        /\ loose' = loose \cup {<<job[w].at, job[w].to>>} /\ UNCHANGED grant
  /\ UNCHANGED <<peers, commands>>

\* A dial also removes the entry it created over there, by its login, and
\* the pending entry it created here.
Withdraw(w) == LET n == job[w].at  m == job[w].to IN
  /\ At(w, "withdraw")
  /\ \/ ~ job[w].created /\ Goes(w, "unpend") /\ UNCHANGED <<peers, grant, loose, faults>>
     \/ /\ job[w].created
        /\ Sets(m, n, NoEntry) /\ Revokes(m, n) /\ Loses(w, m, n)
        /\ Goes(w, "unpend") /\ UNCHANGED faults
     \/ /\ job[w].created /\ Falters(w, "unpend")
        /\ UNCHANGED <<peers, grant, loose>>
  /\ UNCHANGED commands

Unpend(w) == LET n == job[w].at  m == job[w].to IN
  /\ At(w, "unpend")
  /\ peers' = IF job[w].op = "dial" /\ ~ job[w].existed /\ ~ peers[n][m].key
                THEN [peers EXCEPT ![n][m] = NoEntry] ELSE peers
  /\ Ends(w)
  /\ UNCHANGED grant /\ Quiet

----------------------------------------------------------------------------
\* A command or a cycle calls a peer; a pending one is activated first.
Call(w, n, m) ==
  /\ peers[n][m].addr
  /\ IF peers[n][m].key THEN Starts(w, n, m, "call", "call")
                        ELSE Starts(w, n, m, "activate", "hello")

Answered(w) ==
  /\ At(w, "call")
  /\ \/ Serves(job[w].to, job[w].at) /\ Goes(w, "grant")
     \/ Ends(w)
  /\ UNCHANGED <<peers, grant>> /\ Quiet

\* connection add --key: the peer's key is stored, then granted access.
Accept(w, n, m) == Starts(w, n, m, "accept", "keep")

Keep(w) == LET n == job[w].at  m == job[w].to  found == job[w].before.peers[n][m] IN
  /\ At(w, "keep")
  /\ \/ \E addr \in {found.addr, TRUE} :              \* an address may be given
          LET stored == [key |-> TRUE, addr |-> addr] IN
          /\ peers[n][m] = NoEntry \/ peers[n][m].addr = addr
          /\ Sets(n, m, stored)
          /\ job' = [job EXCEPT ![w].step = "keepgrant", ![w].prev = stored]
     \/ Ends(w) /\ UNCHANGED peers        \* changed, or not saved
  /\ UNCHANGED grant /\ Quiet

KeepGrant(w) == LET n == job[w].at  m == job[w].to IN
  /\ At(w, "keepgrant")
  /\ \/ Grants(n, m) /\ Ends(w) /\ UNCHANGED <<peers, loose>>
     \/ /\ Reverted(n, m, job[w].prev, job[w].before.peers[n][m]) /\ LosesUncut(w, n, m)
        /\ Ends(w) /\ UNCHANGED grant
  /\ UNCHANGED <<commands, faults>>

\* connection rm: the grant of the key that was found is cut, then the entry
\* is deleted if it is still the one that was found.  A pending entry has no
\* key to cut.
Remove(w, n, m) ==
  /\ peers[n][m] # NoEntry
  /\ \A v \in Workers : job[v].op = "remove" => job[v].at # n      \* the join lock
  /\ Starts(w, n, m, "remove", IF peers[n][m].key THEN "cut" ELSE "drop")

Cut(w) ==
  /\ At(w, "cut")
  /\ \/ Revokes(job[w].at, job[w].to) /\ Goes(w, "drop")
     \/ Ends(w) /\ UNCHANGED grant
  /\ UNCHANGED peers /\ Quiet

Drop(w) == LET n == job[w].at  m == job[w].to IN
  /\ At(w, "drop")
  /\ \/ /\ peers[n][m] \in {NoEntry, job[w].before.peers[n][m]}
        /\ Sets(n, m, NoEntry) /\ LosesUncut(w, n, m)
        /\ Ends(w)
     \/ Ends(w) /\ UNCHANGED <<peers, loose>>
  /\ UNCHANGED <<grant, commands, faults>>

\* The process dies and its command stays as it is.
Die(w) ==
  /\ ~ At(w, "idle") /\ faults < MaxFaults
  /\ faults' = faults + 1
  /\ loose' = IF At(w, "ungrant") THEN loose \cup {<<job[w].at, job[w].to>>} ELSE loose
  /\ Ends(w)
  /\ UNCHANGED <<peers, grant, commands>>

----------------------------------------------------------------------------
Init == /\ peers = [n \in Nodes |-> [m \in Nodes |-> NoEntry]]
        /\ grant = [n \in Nodes |-> {}]
        /\ job = [w \in Workers |-> NoJob]
        /\ loose = {}
        /\ commands = 0 /\ faults = 0

Begin(w) == \E n \in Nodes : \E m \in Nodes \ {n} :
  Dial(w, n, m) \/ Call(w, n, m) \/ Accept(w, n, m) \/ Remove(w, n, m)

Step(w) == \/ Probe(w) \/ Pend(w) \/ Theirs(w) \/ TheirGrant(w)
           \/ Hello(w) \/ Pin(w) \/ Grant(w)
           \/ Route(w) \/ Back(w) \/ Regrant(w) \/ Last(w) \/ Unroute(w)
           \/ Unpin(w) \/ Ungrant(w) \/ Withdraw(w) \/ Unpend(w)
           \/ Answered(w) \/ Keep(w) \/ KeepGrant(w)
           \/ Cut(w) \/ Drop(w) \/ Die(w)

Next == \E w \in Workers : Begin(w) \/ Step(w)

Spec == Init /\ [][Next]_vars

----------------------------------------------------------------------------
\* Types.  No installation is its own peer.
TypeOK == /\ peers \in [Nodes -> [Nodes -> Entry]]
          /\ grant \in [Nodes -> SUBSET Nodes]
          /\ \A n \in Nodes : peers[n][n] = NoEntry /\ n \notin grant[n]
          /\ job \in [Workers -> Job]
          /\ loose \subseteq Nodes \X Nodes
          /\ commands \in 0..MaxCommands /\ faults \in 0..MaxFaults

\* Both ends hold the other's key and address and let the other in.
Linked(n, m) == \A x \in {n, m} : \A y \in {n, m} \ {x} :
                  peers[x][y].key /\ peers[x][y].addr /\ y \in grant[x]

\* A command that this step ends, other than by the death of its process or by
\* the failure of its last clean-up.
Ended(w) == job[w].step # "idle" /\ job'[w].step = "idle" /\ faults' = faults

\* A dial that reports success has proved both directions: unless another
\* command about the same two ran beside it, each end can call the other.
SuccessIsMutual ==
  [][\A w \in Workers, n, m \in Nodes :
       /\ At(w, "last") /\ Ended(w)
       /\ job[w].alone /\ job[w].at = n /\ job[w].to = m
       => Linked(n, m)']_vars

\* n's entry for m is what it was when command j began, and m is not let in
\* there unless it was then.
EntryAsBefore(j, n, m) == peers'[n][m] = j.before.peers[n][m]
GrantAsBefore(j, n, m) == m \in grant'[n] => m \in j.before.grant[n]

\* A first dial or an activation that reports a failure.
FailedFirst(w) == LET j == job[w] IN
  /\ Ended(w) /\ j.alone /\ j.step \notin {"last", "invite"}
  /\ j.op \in {"dial", "activate"}
  /\ j.op = "dial" => j.before.peers[j.to][j.at] = NoEntry

\* What is left over there: the reply of the remote install is lost, so that the
\* dial does not know what it created (connection.go:250-253); the removal over
\* there fails; or the reply to the dial-back is lost, after which an activation
\* does not take back the way that the other end has stored.
LeftThere(j) ==
  \/ j.failed \cap {"theirgrant", "withdraw"} # {}
  \/ j.op = "activate" /\ "regrant" \in j.failed

\* A dial that fails takes back what it made on both sides, from wherever it
\* fails: with no other command about the two beside it, this side's entry is
\* what it was, its grant too unless cutting it failed, and the other side's
\* entry and grant too unless something is left there.  (The other machine must
\* not have had an entry: what a dial adds to one is left.)
FailedDialUndone ==
  [][\A w \in Workers : FailedFirst(w) =>
       LET j == job[w] IN
       /\ EntryAsBefore(j, j.at, j.to)
       /\ "ungrant" \notin j.failed => GrantAsBefore(j, j.at, j.to)
       /\ ~ LeftThere(j) => EntryAsBefore(j, j.to, j.at) /\ GrantAsBefore(j, j.to, j.at)]_vars

\* "A failed run removes what it created locally and remotely"
\* (connection.go:193-195): a dial whose clean-ups all succeed leaves nothing
\* over there.  False of the code when the reply of the remote install is lost.
FailedRunRemovesAll ==
  [][\A w \in Workers : LET j == job[w] IN
       FailedFirst(w) /\ j.op = "dial" /\ j.failed \cap {"ungrant", "withdraw"} = {} =>
         EntryAsBefore(j, j.to, j.at) /\ GrantAsBefore(j, j.to, j.at)]_vars

\* A node lets in only peers whose key its configuration holds, or that a command
\* which has just forgotten the key is about to shut out; except where a key was
\* lost to a command that overtook another one about the same two on its way to
\* granting access, or the clean-up after it failed.
GrantsArePeers ==
  \A n, m \in Nodes : m \in grant[n] /\ <<n, m>> \notin loose =>
    \/ peers[n][m].key
    \/ \E w \in Workers : At(w, "ungrant") /\ job[w].at = n /\ job[w].to = m

\* A removal that takes the entry out has cut the peer's grant.
RemovedIsCut ==
  [][\A w \in Workers : LET j == job[w] IN
       At(w, "drop") /\ Ended(w) /\ peers'[j.at][j.to] = NoEntry
         => j.to \notin grant'[j.at]]_vars
=============================================================================
