------------------------------ MODULE Binding ------------------------------
(***************************************************************************)
(* How a folder comes to be paired and stops being so.  A provider shares  *)
(* a folder; a consumer attaches to it, which binds the provider's offer   *)
(* to that consumer with a call and then registers the folder in the       *)
(* consumer's own configuration.  Detaching undoes both in the same order. *)
(* The provider may withdraw the offer, either side may remove the other   *)
(* as a peer, the configuration may be edited by hand, and synchronization *)
(* cycles run all the while.  A configuration transaction is atomic (the   *)
(* configuration lock); a command is a sequence of calls and transactions, *)
(* of which a node runs one at a time (the join lock).  Calls lose their   *)
(* replies, saves fail, processes die.                                     *)
(*                                                                         *)
(* One folder name.  Whether a call is let in by SSH, first contact and    *)
(* keys are the subject of module Peering: here a peer is either connected *)
(* or not.                                                                 *)
(***************************************************************************)
EXTENDS Integers, FiniteSets

CONSTANTS
  Provider,     \* the node that shares the folder
  Consumers,    \* the nodes that attach to it
  Ids,          \* folder identities, kept in the marker of a folder's root
  NoId,         \* no marker, no identity
  NoPeer,       \* no registration, or an offer that is bound to nobody
  NotShared,    \* no offer
  MaxCommands,  \* bound on the commands, edits and cycles that are started
  MaxFaults     \* bound on the replies lost and processes that die

Nodes == Consumers \cup {Provider}

\* A node's configuration: its offer and whom it is bound to, the peer of
\* its remote folder, and the peers it is connected to.
Config == [shared : Consumers \cup {NoPeer, NotShared},
           remote : {Provider, NoPeer},
           peers  : SUBSET Nodes]

\* No file is open in an editor.
NoConfig == [shared |-> NoPeer, remote |-> Provider, peers |-> {}]

ASSUME BindingAssumption ==
  /\ Provider \notin Consumers /\ NoPeer # NotShared
  /\ {NoPeer, NotShared} \cap Nodes = {} /\ NoId \notin Ids
  /\ MaxCommands \in Nat /\ MaxFaults \in Nat

VARIABLES
  cfg,        \* cfg[n]: the configuration file of node n
  granted,    \* consumers whose key the provider's authorized_keys accepts
  marker,     \* marker[n]: the identity in the marker of n's folder
  index,      \* index[n]: the identities for which n keeps an index file
  job,        \* job[n]: the command that holds n's join lock
  cycle,      \* cycle[n]: the identity that a cycle of n is scanning, or NoId
  editor,     \* editor[n]: the configuration n's editor was opened on
  released,   \* history: consumers whose binding was ended since they made it
  abandoned,  \* history: consumers that left a binding behind unannounced
  commands,   \* commands, edits and cycles started so far
  faults      \* faults so far

vars == <<cfg, granted, marker, index, job, cycle, editor,
          released, abandoned, commands, faults>>

Steps == {"idle", "bind", "list", "register", "undo", "validate",
          "unbind", "unregister", "prune", "revoke", "forget", "withdraw"}

\* A command: its next step, whether it made the binding, the identity the
\* provider named, whether its path is new, the peer it removes, and the
\* folders it found bound to that peer.
Job == [step : Steps, created : BOOLEAN, id : Ids \cup {NoId}, fresh : BOOLEAN,
        peer : Nodes \cup {NoPeer}, shared : BOOLEAN, remote : BOOLEAN]

NoJob == [step |-> "idle", created |-> FALSE, id |-> NoId, fresh |-> FALSE,
          peer |-> NoPeer, shared |-> FALSE, remote |-> FALSE]

\* A configuration that names a peer it does not hold is refused by every
\* command, by the daemon and by the handlers that serve the peer.
Valid(c) == /\ c.shared \in Consumers => c.shared \in c.peers
            /\ c.remote # NoPeer => c.remote \in c.peers
            /\ c.shared # NotShared => c.remote = NoPeer

Offer == cfg[Provider].shared
Paired(n) == cfg[n].shared \in Consumers \/ cfg[n].remote # NoPeer

\* The provider answers a consumer it is connected to.
Serves(c) == /\ c \in granted
             /\ c \in cfg[Provider].peers
             /\ Valid(cfg[Provider])

SharedAs(n, s) == [cfg EXCEPT ![n].shared = s]

----------------------------------------------------------------------------
\* The handlers that the provider runs for a consumer.

\* Slip: an offer that is bound to another consumer is taken.
BindableTaken(c) == Serves(c) /\ Offer # NotShared

Bindable(c) == Serves(c) /\ Offer \in {NoPeer, c}

Bind(c) == /\ cfg' = SharedAs(Provider, c)
           /\ released' = released \ {c}

\* What unbinding does: an offer that is gone or bound to nobody is done.
Unbindable(c) == Serves(c) /\ Offer \in {NoPeer, NotShared, c}

Unbind(c) == cfg' = IF Offer = c THEN SharedAs(Provider, NoPeer) ELSE cfg

----------------------------------------------------------------------------
\* Commands begin and end.

Starts(n, started) ==
  /\ job[n].step = "idle" /\ commands < MaxCommands
  /\ commands' = commands + 1
  /\ job' = [job EXCEPT ![n] = started]
  /\ UNCHANGED <<cfg, granted, marker, index, cycle, editor, released, abandoned, faults>>

At(n, s)      == job[n].step = s
Goes(n, s)    == job' = [job EXCEPT ![n].step = s]
Exits(n)      == job' = [job EXCEPT ![n] = NoJob]
Fault         == faults < MaxFaults /\ faults' = faults + 1

\* Slip: the failure is reported and the binding stays.
FailWithoutUndo(c) == Exits(c)

\* A failed attach gives back the binding that it made, and only that one.
FailAttach(c) == IF job[c].created THEN Goes(c, "undo") ELSE Exits(c)

----------------------------------------------------------------------------
\* Attach: bind the offer, read the provider's listing, register the folder.

\* A folder that is not registered yet, at the path it had or at a new one.
AttachNew(c) == \E fresh \in BOOLEAN :
  /\ Valid(cfg[c]) /\ Provider \in cfg[c].peers
  /\ cfg[c].shared = NotShared /\ cfg[c].remote = NoPeer
  /\ Serves(c) /\ Offer # NotShared
  /\ Starts(c, [NoJob EXCEPT !.step = "bind", !.fresh = fresh])

\* A folder registered before: the attach is resumed.
AttachAgain(c) ==
  /\ Valid(cfg[c]) /\ cfg[c].remote = Provider
  /\ Starts(c, [NoJob EXCEPT !.step = "bind", !.remote = TRUE])

BindOffer(c) ==
  /\ At(c, "bind")
  /\ \/ /\ Bindable(c) /\ Bind(c)
        /\ job' = [job EXCEPT ![c].created = Offer = NoPeer,
                              ![c].step = IF job[c].remote THEN "validate" ELSE "list"]
        /\ abandoned' = IF Offer = NoPeer THEN abandoned \ {c} ELSE abandoned
        /\ UNCHANGED faults
     \/ /\ Bindable(c) /\ Bind(c)                   \* the reply is lost
        /\ Exits(c) /\ Fault
        /\ abandoned' = abandoned \cup {c}
     \/ /\ Exits(c)                                 \* refused or unreachable
        /\ UNCHANGED <<cfg, released, abandoned, faults>>
  /\ UNCHANGED <<granted, marker, index, cycle, editor, commands>>

\* The listing of the offer just bound names the folder's identity.
ListOffer(c) ==
  /\ At(c, "list")
  /\ \/ /\ Serves(c) /\ Offer = c
        /\ job' = [job EXCEPT ![c].step = "register", ![c].id = marker[Provider]]
     \/ FailAttach(c)
  /\ UNCHANGED <<cfg, granted, marker, index, cycle, editor,
                 released, abandoned, commands, faults>>

\* The registration and the marker are one transaction.  It is given up when
\* the user declines the divergence, when the peer or the marker does not
\* match, and when the configuration cannot be saved.
Registrable(c) == /\ Valid(cfg[c]) /\ Provider \in cfg[c].peers
                  /\ cfg[c].shared = NotShared /\ cfg[c].remote \in {NoPeer, Provider}
                  /\ job[c].fresh \/ marker[c] \in {NoId, job[c].id}

Register(c) ==
  /\ At(c, "register")
  /\ \/ /\ Registrable(c)
        /\ cfg' = [cfg EXCEPT ![c].remote = Provider]
        /\ marker' = [marker EXCEPT ![c] = job[c].id]
        /\ abandoned' = abandoned \ {c}
        /\ Exits(c)
     \/ /\ FailAttach(c)
        /\ UNCHANGED <<cfg, marker, abandoned>>
  /\ UNCHANGED <<granted, index, cycle, editor, released, commands, faults>>

\* A resumed attach only checks that the registration is still what it was.
Validate(c) ==
  /\ At(c, "validate")
  /\ \/ /\ Valid(cfg[c]) /\ Provider \in cfg[c].peers /\ cfg[c].remote = Provider
        /\ Exits(c)
     \/ FailAttach(c)
  /\ UNCHANGED <<cfg, granted, marker, index, cycle, editor,
                 released, abandoned, commands, faults>>

Undo(c) ==
  /\ At(c, "undo") /\ Exits(c)
  /\ \/ /\ Unbindable(c) /\ Unbind(c)
        /\ released' = released \cup {c}
        /\ UNCHANGED <<abandoned, faults>>
     \/ /\ IF Unbindable(c) THEN Fault ELSE UNCHANGED faults
        /\ abandoned' = abandoned \cup {c}
        /\ UNCHANGED <<cfg, released>>
  /\ UNCHANGED <<granted, marker, index, cycle, editor, commands>>

----------------------------------------------------------------------------
\* Detach: unbind the offer, drop the registration, prune the index.

Detach(c) ==
  /\ Valid(cfg[c]) /\ cfg[c].remote = Provider
  /\ Starts(c, [NoJob EXCEPT !.step = "unbind"])

UnbindOffer(c) ==
  /\ At(c, "unbind")
  /\ \/ /\ Unbindable(c) /\ Unbind(c)
        /\ released' = released \cup {c}
        /\ \/ /\ job' = [job EXCEPT ![c].step = "unregister", ![c].id = marker[c]]
              /\ UNCHANGED faults
           \/ Exits(c) /\ Fault                     \* the reply is lost
     \/ /\ Exits(c)                                 \* refused or unreachable
        /\ UNCHANGED <<cfg, released, faults>>
  /\ UNCHANGED <<granted, marker, index, cycle, editor, abandoned, commands>>

\* Slip: the index is pruned although the registration could not be dropped.
UnregisterOrNot(c) ==
  /\ At(c, "unregister") /\ Goes(c, "prune")
  /\ cfg' \in {cfg, [cfg EXCEPT ![c].remote = NoPeer]}
  /\ UNCHANGED <<granted, marker, index, cycle, editor, released, abandoned, commands, faults>>

\* The transaction may be refused, and a save may report an error after the
\* new configuration is in place: then the index is not pruned.
Unregister(c) ==
  /\ At(c, "unregister")
  /\ \/ /\ Valid(cfg[c]) /\ Provider \in cfg[c].peers /\ cfg[c].remote = Provider
        /\ cfg' = [cfg EXCEPT ![c].remote = NoPeer]
        /\ \/ Goes(c, "prune") /\ UNCHANGED faults
           \/ Exits(c) /\ Fault
     \/ /\ Exits(c)
        /\ UNCHANGED <<cfg, faults>>
  /\ UNCHANGED <<granted, marker, index, cycle, editor, released, abandoned, commands>>

Prune(n) ==
  /\ At(n, "prune") /\ Exits(n)
  /\ index' = [index EXCEPT ![n] = @ \ {job[n].id}]
  /\ UNCHANGED <<cfg, granted, marker, cycle, editor, released, abandoned, commands, faults>>

----------------------------------------------------------------------------
\* The provider shares a folder, in one transaction and without the join
\* lock: its root keeps its identity, another root has another one.
Share == \E id \in Ids :
  /\ commands < MaxCommands
  /\ Valid(cfg[Provider]) /\ Offer = NotShared
  /\ cfg' = SharedAs(Provider, NoPeer)
  /\ marker' = [marker EXCEPT ![Provider] = id]
  /\ commands' = commands + 1
  /\ UNCHANGED <<granted, index, job, cycle, editor, released, abandoned, faults>>

\* Withdrawing the offer asks no consumer.
Unshare ==
  /\ Valid(cfg[Provider]) /\ Offer # NotShared
  /\ Starts(Provider, [NoJob EXCEPT !.step = "withdraw", !.id = marker[Provider]])

Withdraw ==
  /\ At(Provider, "withdraw")
  /\ \/ /\ Valid(cfg[Provider]) /\ Offer # NotShared
        /\ marker[Provider] = job[Provider].id
        /\ cfg' = SharedAs(Provider, NotShared)
        /\ released' = released \cup ({Offer} \cap Consumers)
        /\ Goes(Provider, "prune")
     \/ /\ Exits(Provider)
        /\ UNCHANGED <<cfg, released>>
  /\ UNCHANGED <<granted, marker, index, cycle, editor, abandoned, commands, faults>>

----------------------------------------------------------------------------
\* Removing a peer: the folders bound to it are looked up, the user confirms,
\* its grant is cut, and one transaction takes it out of the configuration.
\* The peer is not told.
Remove(n) == \E m \in cfg[n].peers :
  Starts(n, [NoJob EXCEPT !.step = "revoke", !.peer = m, !.id = marker[n],
                          !.shared = cfg[n].shared = m, !.remote = cfg[n].remote = m])

Revoke(n) ==
  /\ At(n, "revoke")
  /\ \/ /\ Goes(n, "forget")
        /\ granted' = granted \ {job[n].peer}
     \/ Exits(n) /\ UNCHANGED granted               \* not confirmed
  /\ UNCHANGED <<cfg, marker, index, cycle, editor, released, abandoned, commands, faults>>

\* What the transaction writes: only the folders found at the start change.
Without(n) == LET j == job[n] IN
  [shared |-> IF j.shared /\ cfg[n].shared = j.peer THEN NoPeer ELSE cfg[n].shared,
   remote |-> IF j.remote THEN NoPeer ELSE cfg[n].remote,
   peers  |-> cfg[n].peers \ {j.peer}]

Forgettable(n) == LET j == job[n] IN
  /\ Valid(cfg[n])
  /\ j.shared => cfg[n].shared \in {NotShared, j.peer}

Forget(n) ==
  /\ At(n, "forget")
  /\ \/ /\ Forgettable(n)
        /\ cfg' = [cfg EXCEPT ![n] = IF job[n].peer \in @.peers THEN Without(n) ELSE @]
        /\ released' = IF n = Provider /\ job[n].shared THEN released \cup {job[n].peer}
                                                       ELSE released
        /\ abandoned' = IF Offer = n THEN abandoned \cup {n} ELSE abandoned
        /\ IF job[n].remote THEN Goes(n, "prune") ELSE Exits(n)
     \/ /\ Exits(n)
        /\ UNCHANGED <<cfg, released, abandoned>>
  /\ UNCHANGED <<granted, marker, index, cycle, editor, commands, faults>>

\* The two are connected again, as module Peering describes.
Connect(c) ==
  /\ commands < MaxCommands
  /\ Valid(cfg[Provider]) /\ Valid(cfg[c])
  /\ ~ (c \in granted /\ c \in cfg[Provider].peers /\ Provider \in cfg[c].peers)
  /\ cfg' = [cfg EXCEPT ![Provider].peers = @ \cup {c}, ![c].peers = @ \cup {Provider}]
  /\ granted' = granted \cup {c}
  /\ commands' = commands + 1
  /\ UNCHANGED <<marker, index, job, cycle, editor, released, abandoned, faults>>

----------------------------------------------------------------------------
\* A cycle reads the configuration, scans, and saves the index later without
\* looking at the configuration again.
CycleStart(n) ==
  /\ commands < MaxCommands
  /\ cycle[n] = NoId /\ Valid(cfg[n]) /\ Paired(n)
  /\ cycle' = [cycle EXCEPT ![n] = marker[n]]
  /\ commands' = commands + 1
  /\ UNCHANGED <<cfg, granted, marker, index, job, editor, released, abandoned, faults>>

\* Slip: an index is saved though nothing was scanned.
CycleSaveNothing(n) ==
  /\ index' = [index EXCEPT ![n] = @ \cup {cycle[n]}]
  /\ cycle' = [cycle EXCEPT ![n] = NoId]
  /\ UNCHANGED <<cfg, granted, marker, job, editor, released, abandoned, commands, faults>>

CycleSave(n) ==
  /\ cycle[n] # NoId
  /\ index' = [index EXCEPT ![n] = @ \cup {cycle[n]}]
  /\ cycle' = [cycle EXCEPT ![n] = NoId]
  /\ UNCHANGED <<cfg, granted, marker, job, editor, released, abandoned, commands, faults>>

\* The configuration is opened in an editor, and installed if the file is
\* still the one that was opened.  The user unbinds the offer, drops the
\* registration, or changes something that is not modelled.
EditOpen(n) ==
  /\ commands < MaxCommands
  /\ editor[n] = NoConfig
  /\ editor' = [editor EXCEPT ![n] = cfg[n]]
  /\ commands' = commands + 1
  /\ UNCHANGED <<cfg, granted, marker, index, job, cycle, released, abandoned, faults>>

Edits(c) == {e \in {c, [c EXCEPT !.remote = NoPeer],
                       [c EXCEPT !.shared = IF @ \in Consumers THEN NoPeer ELSE @]} : Valid(e)}

Installable(n) == cfg[n] = editor[n]

EditInstall(n) ==
  /\ editor[n] # NoConfig
  /\ editor' = [editor EXCEPT ![n] = NoConfig]
  /\ \/ /\ Installable(n)
        /\ \E e \in Edits(editor[n]) :
             /\ cfg' = [cfg EXCEPT ![n] = e]
             /\ released' = released \cup (({editor[n].shared} \ {e.shared}) \cap Consumers)
             /\ abandoned' = IF e.remote # editor[n].remote /\ Offer = n
                               THEN abandoned \cup {n} ELSE abandoned
     \/ UNCHANGED <<cfg, released, abandoned>>
  /\ UNCHANGED <<granted, marker, index, job, cycle, commands, faults>>

\* The process dies: the lock comes free and the command is not finished.
Die(n) ==
  /\ job[n].step # "idle" /\ Fault /\ Exits(n)
  /\ abandoned' = IF Offer = n /\ cfg[n].remote = NoPeer THEN abandoned \cup {n} ELSE abandoned
  /\ UNCHANGED <<cfg, granted, marker, index, cycle, editor, released, commands>>

----------------------------------------------------------------------------
\* All are connected, and the provider shares the folder.
Init == /\ cfg = [n \in Nodes |->
                    IF n = Provider
                      THEN [shared |-> NoPeer, remote |-> NoPeer, peers |-> Consumers]
                      ELSE [shared |-> NotShared, remote |-> NoPeer, peers |-> {Provider}]]
        /\ granted = Consumers
        /\ \E id \in Ids : marker = [n \in Nodes |-> IF n = Provider THEN id ELSE NoId]
        /\ index = [n \in Nodes |-> {}]
        /\ job = [n \in Nodes |-> NoJob]
        /\ cycle = [n \in Nodes |-> NoId]
        /\ editor = [n \in Nodes |-> NoConfig]
        /\ released = {} /\ abandoned = {} /\ commands = 0 /\ faults = 0

ConsumerStep(c) == \/ AttachNew(c) \/ AttachAgain(c) \/ BindOffer(c) \/ ListOffer(c)
                   \/ Register(c) \/ Validate(c) \/ Undo(c)
                   \/ Detach(c) \/ UnbindOffer(c) \/ Unregister(c) \/ Connect(c)

NodeStep(n) == \/ Prune(n) \/ Remove(n) \/ Revoke(n) \/ Forget(n)
               \/ CycleStart(n) \/ CycleSave(n)
               \/ EditOpen(n) \/ EditInstall(n) \/ Die(n)

Next == \/ Share \/ Unshare \/ Withdraw
        \/ \E c \in Consumers : ConsumerStep(c)
        \/ \E n \in Nodes : NodeStep(n)

Spec == Init /\ [][Next]_vars

----------------------------------------------------------------------------
\* Types.
TypeOK == /\ cfg \in [Nodes -> Config]
          /\ granted \subseteq Consumers
          /\ marker \in [Nodes -> Ids \cup {NoId}]
          /\ index \in [Nodes -> SUBSET Ids]
          /\ job \in [Nodes -> Job]
          /\ cycle \in [Nodes -> Ids \cup {NoId}]
          /\ editor \in [Nodes -> Config]
          /\ released \subseteq Consumers /\ abandoned \subseteq Consumers
          /\ commands \in 0..MaxCommands /\ faults \in 0..MaxFaults

\* A consumer that has a folder registered is the one its provider's offer
\* is bound to, unless that binding was ended by a command or an edit: it is
\* never taken by another attach, by a compensation or by an edit that was
\* opened before it.
RegisteredIsBound ==
  \A c \in Consumers : cfg[c].remote = Provider => Offer = c \/ c \in released

\* An offer that stays bound to a consumer that has not registered the folder
\* was left so by a lost reply, a death, a removal, an edit that dropped the
\* registration, or an undoing that the provider did not carry out, because it
\* did not serve the consumer any more or the call failed: a command that fails
\* in any other way gives back what it bound.
FailedAttachUndone ==
  \A c \in Consumers :
    Offer = c /\ cfg[c].remote = NoPeer /\ job[c].step = "idle" => c \in abandoned

\* The index of a consumer's folder is deleted only once the folder is not
\* registered, whatever the command is interrupted by.
RegisteredIndexKept ==
  [][\A c \in Consumers : ~ (index[c] \subseteq index'[c]) => cfg'[c].remote = NoPeer]_vars

\* A configuration never binds a folder to a peer that it does not hold.
BindingsKnown == \A n \in Nodes : Valid(cfg[n])

\* An index is written only for a folder that is paired: the index is
\* meaningful only while the pairing exists.
IndexedWhilePaired ==
  [][\A n \in Nodes : ~ (index'[n] \subseteq index[n]) => Paired(n)]_vars
=============================================================================
