----------------------------- MODULE BindingProofs -----------------------------
(***************************************************************************)
(* Theorems about Binding, for any number of consumers and identities and  *)
(* any number of commands and faults.                                      *)
(***************************************************************************)
EXTENDS Binding, TLAPS

\* A command that removes a peer knows which: one that had a folder bound to it.
JobKept ==
  \A n \in Nodes : job[n].step \in {"revoke", "forget"} =>
    /\ job[n].shared => job[n].peer \in Consumers
    /\ job[n].remote => job[n].peer = Provider

TypeInv == TypeOK /\ JobKept

\* The offer is c's, or was taken from it in a way that is on record.
Held(c) == Offer = c \/ c \in released

\* c has the folder registered, or is about to.
Claims(c) == cfg[c].remote = Provider \/ job[c].step = "register"

ClaimsHeld == \A c \in Consumers : Claims(c) => Held(c)

\* A command of c is under way that will register the folder or undo its binding.
Undoes(c) == /\ job[c].created
             /\ job[c].step \in {"list", "register", "validate", "undo"}

\* A binding that nothing will undo is a registered one or known to be left behind.
Accounted(c) ==
  /\ Offer = c /\ cfg[c].remote = NoPeer /\ ~Undoes(c) => c \in abandoned
  /\ job[c].step = "unregister" => Offer # c

BindingsAccounted == \A c \in Consumers : Accounted(c)

\* An index is about to be pruned only where the registration is gone.
Unregistered(c) == job[c].step = "prune" => cfg[c].remote = NoPeer

PrunesUnregistered == \A c \in Consumers : Unregistered(c)

BindingInv == TypeInv /\ ClaimsHeld /\ BindingsAccounted /\ PrunesUnregistered

-------------------------------------------------------------------------------
(* What the helpers do to well-typed variables. *)

LEMMA NodesDistinct ==
  /\ Provider \in Nodes /\ Provider \notin Consumers
  /\ \A c \in Consumers : c \in Nodes /\ c # Provider
  /\ NoPeer \notin Nodes /\ NotShared \notin Nodes /\ NoPeer # NotShared
  /\ NoId \notin Ids
BY BindingAssumption DEF Nodes

LEMMA NodeTyped ==
  ASSUME TypeOK, NEW n \in Nodes
  PROVE  /\ cfg[n].shared \in Consumers \cup {NoPeer, NotShared}
         /\ cfg[n].remote \in {Provider, NoPeer} /\ cfg[n].peers \subseteq Nodes
         /\ cfg[n] \in Config /\ job[n] \in Job
         /\ job[n].step \in Steps /\ job[n].id \in Ids \cup {NoId}
         /\ job[n].peer \in Nodes \cup {NoPeer}
         /\ marker[n] \in Ids \cup {NoId}
BY DEF TypeOK, Config, Job

LEMMA JobMoves ==
  ASSUME TypeInv, NEW n \in Nodes, NEW j \in Job, job' = [job EXCEPT ![n] = j],
         j.step \in {"revoke", "forget"} =>
           /\ j.shared => j.peer \in Consumers
           /\ j.remote => j.peer = Provider
  PROVE  job' \in [Nodes -> Job] /\ JobKept'
<1>1. job' \in [Nodes -> Job]
  BY DEF TypeInv, TypeOK
<1>2. ASSUME NEW m \in Nodes PROVE job'[m] = IF m = n THEN j ELSE job[m]
  BY DEF TypeInv, TypeOK
<1>. QED BY <1>1, <1>2 DEF TypeInv, JobKept

LEMMA JobExits ==
  ASSUME TypeInv, NEW n \in Nodes, Exits(n)
  PROVE  job' \in [Nodes -> Job] /\ JobKept'
<1>1. NoJob \in Job /\ NoJob.step = "idle"
  BY DEF NoJob, Job, Steps
<1>. QED BY <1>1, JobMoves DEF Exits

LEMMA JobGoes ==
  ASSUME TypeInv, NEW n \in Nodes, NEW s \in Steps, Goes(n, s),
         s \in {"revoke", "forget"} => At(n, "revoke")
  PROVE  job' \in [Nodes -> Job] /\ JobKept'
<1>. DEFINE j == [job[n] EXCEPT !.step = s]
<1>1. job[n] \in Job
  BY NodeTyped DEF TypeInv
<1>2. /\ j \in Job /\ j.step = s /\ j.shared = job[n].shared
      /\ j.remote = job[n].remote /\ j.peer = job[n].peer
  BY <1>1 DEF Job
<1>3. job' = [job EXCEPT ![n] = j]
  BY DEF Goes, TypeInv, TypeOK
<1>. HIDE DEF j
<1>. QED BY <1>2, <1>3, JobMoves DEF At, TypeInv, JobKept

LEMMA JobFails ==
  ASSUME TypeInv, NEW c \in Nodes, FailAttach(c)
  PROVE  job' \in [Nodes -> Job] /\ JobKept'
<1>1. "undo" \in Steps
  BY DEF Steps
<1>. QED BY <1>1, JobExits, JobGoes DEF FailAttach

LEMMA JobStarts ==
  ASSUME TypeInv, NEW n \in Nodes, NEW j \in Job, Starts(n, j),
         j.step \in {"revoke", "forget"} =>
           /\ j.shared => j.peer \in Consumers
           /\ j.remote => j.peer = Provider
  PROVE  TypeInv'
<1>1. job' \in [Nodes -> Job] /\ JobKept'
  BY JobMoves DEF Starts
<1>2. commands' \in 0 .. MaxCommands
  BY BindingAssumption DEF Starts, TypeInv, TypeOK
<1>. QED BY <1>1, <1>2 DEF Starts, TypeInv, TypeOK

LEMMA ConfigChanges ==
  ASSUME TypeOK, NEW n \in Nodes, NEW e \in Config, cfg' = [cfg EXCEPT ![n] = e]
  PROVE  cfg' \in [Nodes -> Config]
BY DEF TypeOK

LEMMA SharedTyped ==
  ASSUME TypeOK, NEW n \in Nodes, NEW s \in Consumers \cup {NoPeer, NotShared}
  PROVE  SharedAs(n, s) \in [Nodes -> Config]
<1>1. [cfg[n] EXCEPT !.shared = s] \in Config
  BY NodeTyped DEF Config
<1>. QED BY <1>1 DEF SharedAs, TypeOK

LEMMA RemoteTyped ==
  ASSUME TypeOK, NEW n \in Nodes, NEW r \in {Provider, NoPeer},
         cfg' = [cfg EXCEPT ![n].remote = r]
  PROVE  cfg' \in [Nodes -> Config]
<1>1. [cfg[n] EXCEPT !.remote = r] \in Config
  BY NodeTyped DEF Config
<1>. QED BY <1>1 DEF TypeOK

LEMMA UnbindTyped ==
  ASSUME TypeOK, NEW c, Unbind(c)
  PROVE  cfg' \in [Nodes -> Config]
<1>1. SharedAs(Provider, NoPeer) \in [Nodes -> Config]
  BY NodesDistinct, SharedTyped
<1>. QED BY <1>1 DEF Unbind, TypeOK

LEMMA FaultTyped ==
  ASSUME TypeOK, Fault
  PROVE  faults' \in 0 .. MaxFaults
BY BindingAssumption DEF Fault, TypeOK

-------------------------------------------------------------------------------
(* Type correctness. *)

LEMMA StartsTyped ==
  ASSUME TypeInv,
         \/ \E c \in Consumers : AttachNew(c) \/ AttachAgain(c) \/ Detach(c)
         \/ \E n \in Nodes : Remove(n)
         \/ Unshare
  PROVE  TypeInv'
<1>. USE DEF TypeInv
<1>1. NoJob \in Job
  BY DEF NoJob, Job, Steps
<1>3. ASSUME NEW c \in Consumers, AttachNew(c) PROVE TypeInv'
  <2>1. PICK fresh \in BOOLEAN : Starts(c, [NoJob EXCEPT !.step = "bind", !.fresh = fresh])
    BY <1>3 DEF AttachNew
  <2>2. /\ [NoJob EXCEPT !.step = "bind", !.fresh = fresh] \in Job
        /\ [NoJob EXCEPT !.step = "bind", !.fresh = fresh].step = "bind"
    BY <1>1 DEF Job, Steps
  <2>. QED BY <2>1, <2>2, JobStarts, NodesDistinct
<1>4. ASSUME NEW c \in Consumers, AttachAgain(c) PROVE TypeInv'
  <2>1. Starts(c, [NoJob EXCEPT !.step = "bind", !.remote = TRUE])
    BY <1>4 DEF AttachAgain
  <2>2. /\ [NoJob EXCEPT !.step = "bind", !.remote = TRUE] \in Job
        /\ [NoJob EXCEPT !.step = "bind", !.remote = TRUE].step = "bind"
    BY <1>1 DEF Job, Steps
  <2>. QED BY <2>1, <2>2, JobStarts, NodesDistinct
<1>5. ASSUME NEW c \in Consumers, Detach(c) PROVE TypeInv'
  <2>1. Starts(c, [NoJob EXCEPT !.step = "unbind"])
    BY <1>5 DEF Detach
  <2>2. /\ [NoJob EXCEPT !.step = "unbind"] \in Job
        /\ [NoJob EXCEPT !.step = "unbind"].step = "unbind"
    BY <1>1 DEF Job, Steps
  <2>. QED BY <2>1, <2>2, JobStarts, NodesDistinct
<1>6. CASE Unshare
  <2>. DEFINE j == [NoJob EXCEPT !.step = "withdraw", !.id = marker[Provider]]
  <2>1. Starts(Provider, j)
    BY <1>6 DEF Unshare
  <2>2. j \in Job /\ j.step = "withdraw"
    BY <1>1, NodeTyped, NodesDistinct DEF Job, Steps
  <2>. HIDE DEF j
  <2>. QED BY <2>1, <2>2, JobStarts, NodesDistinct
<1>7. ASSUME NEW n \in Nodes, Remove(n) PROVE TypeInv'
  <2>1. PICK m \in cfg[n].peers :
          Starts(n, [NoJob EXCEPT !.step = "revoke", !.peer = m, !.id = marker[n],
                                  !.shared = cfg[n].shared = m, !.remote = cfg[n].remote = m])
    BY <1>7 DEF Remove
  <2>. DEFINE j == [NoJob EXCEPT !.step = "revoke", !.peer = m, !.id = marker[n],
                                 !.shared = cfg[n].shared = m, !.remote = cfg[n].remote = m]
  <2>2. m \in Nodes /\ marker[n] \in Ids \cup {NoId}
    BY NodeTyped
  <2>3. j \in Job /\ j.peer = m
    BY <1>1, <2>2 DEF Job, Steps
  <2>4. j.shared = (cfg[n].shared = m) /\ j.remote = (cfg[n].remote = m)
    BY DEF NoJob
  <2>5. (cfg[n].shared = m => m \in Consumers) /\ (cfg[n].remote = m => m = Provider)
    BY <2>2, NodeTyped, NodesDistinct
  <2>6. Starts(n, j)
    BY <2>1
  <2>. HIDE DEF j
  <2>. QED BY <2>3, <2>4, <2>5, <2>6, JobStarts
<1>. QED BY <1>3, <1>4, <1>5, <1>6, <1>7

LEMMA AttachTyped ==
  ASSUME TypeInv, NEW c \in Consumers,
         BindOffer(c) \/ ListOffer(c) \/ Register(c) \/ Validate(c) \/ Undo(c)
  PROVE  TypeInv'
<1>. USE DEF TypeInv
<1>1. c \in Nodes /\ Provider \in Nodes
  BY NodesDistinct
<1>2. job[c] \in Job /\ marker[Provider] \in Ids \cup {NoId} /\ job[c].id \in Ids \cup {NoId}
  BY <1>1, NodeTyped
<1>3. CASE BindOffer(c)
  <2>1. Bind(c) => /\ cfg' \in [Nodes -> Config] /\ released' \subseteq Consumers
    BY <1>1, SharedTyped DEF Bind, TypeOK
  <2>2. CASE /\ Bindable(c) /\ Bind(c)
             /\ job' = [job EXCEPT ![c].created = Offer = NoPeer,
                                   ![c].step = IF job[c].remote THEN "validate" ELSE "list"]
             /\ abandoned' = IF Offer = NoPeer THEN abandoned \ {c} ELSE abandoned
             /\ UNCHANGED faults
    <3>. DEFINE j == [job[c] EXCEPT !.created = Offer = NoPeer,
                                    !.step = IF job[c].remote THEN "validate" ELSE "list"]
    <3>1. j \in Job /\ j.step \in {"validate", "list"}
      BY <1>2 DEF Job, Steps
    <3>2. job' = [job EXCEPT ![c] = j]
      BY <1>1, <2>2 DEF TypeOK
    <3>. HIDE DEF j
    <3>3. job' \in [Nodes -> Job] /\ JobKept'
      BY <1>1, <3>1, <3>2, JobMoves
    <3>. QED BY <1>3, <2>1, <2>2, <3>3 DEF BindOffer, TypeOK
  <2>3. CASE /\ Bindable(c) /\ Bind(c)
             /\ Exits(c) /\ Fault
             /\ abandoned' = abandoned \cup {c}
    BY <1>1, <1>3, <2>1, <2>3, JobExits, FaultTyped DEF BindOffer, TypeOK
  <2>4. CASE Exits(c) /\ UNCHANGED <<cfg, released, abandoned, faults>>
    BY <1>1, <1>3, <2>4, JobExits DEF BindOffer, TypeOK
  <2>. QED BY <1>3, <2>2, <2>3, <2>4 DEF BindOffer
<1>4. CASE ListOffer(c)
  <2>1. job' \in [Nodes -> Job] /\ JobKept'
    <3>1. CASE FailAttach(c)
      BY <1>1, <3>1, JobFails
    <3>2. CASE job' = [job EXCEPT ![c].step = "register", ![c].id = marker[Provider]]
      <4>. DEFINE j == [job[c] EXCEPT !.step = "register", !.id = marker[Provider]]
      <4>1. j \in Job /\ j.step = "register"
        BY <1>2 DEF Job, Steps
      <4>2. job' = [job EXCEPT ![c] = j]
        BY <1>1, <3>2 DEF TypeOK
      <4>. HIDE DEF j
      <4>. QED BY <1>1, <4>1, <4>2, JobMoves
    <3>. QED BY <1>4, <3>1, <3>2 DEF ListOffer
  <2>. QED BY <1>4, <2>1 DEF ListOffer, TypeOK
<1>5. CASE Register(c)
  <2>1. job' \in [Nodes -> Job] /\ JobKept'
    BY <1>1, <1>5, JobExits, JobFails DEF Register
  <2>2. cfg' \in [Nodes -> Config]
    BY <1>1, <1>5, RemoteTyped DEF Register, TypeOK
  <2>3. marker' \in [Nodes -> Ids \cup {NoId}] /\ abandoned' \subseteq Consumers
    BY <1>2, <1>5 DEF Register, TypeOK
  <2>. QED BY <1>5, <2>1, <2>2, <2>3 DEF Register, TypeOK
<1>6. CASE Validate(c)
  <2>1. job' \in [Nodes -> Job] /\ JobKept'
    BY <1>1, <1>6, JobExits, JobFails DEF Validate
  <2>. QED BY <1>6, <2>1 DEF Validate, TypeOK
<1>7. CASE Undo(c)
  <2>1. job' \in [Nodes -> Job] /\ JobKept'
    BY <1>1, <1>7, JobExits DEF Undo
  <2>2. cfg' \in [Nodes -> Config]
    BY <1>7, UnbindTyped DEF Undo, TypeOK
  <2>3. faults' \in 0 .. MaxFaults /\ released' \subseteq Consumers /\ abandoned' \subseteq Consumers
    BY <1>7, FaultTyped DEF Undo, TypeOK
  <2>. QED BY <1>7, <2>1, <2>2, <2>3 DEF Undo, TypeOK
<1>. QED BY <1>3, <1>4, <1>5, <1>6, <1>7

LEMMA DetachTyped ==
  ASSUME TypeInv, NEW c \in Consumers, UnbindOffer(c) \/ Unregister(c) \/ Connect(c)
  PROVE  TypeInv'
<1>. USE DEF TypeInv
<1>1. c \in Nodes /\ Provider \in Nodes /\ c # Provider
  BY NodesDistinct
<1>2. job[c] \in Job /\ marker[c] \in Ids \cup {NoId}
  BY <1>1, NodeTyped
<1>3. CASE UnbindOffer(c)
  <2>1. job' \in [Nodes -> Job] /\ JobKept'
    <3>1. CASE Exits(c)
      BY <1>1, <3>1, JobExits
    <3>2. CASE job' = [job EXCEPT ![c].step = "unregister", ![c].id = marker[c]]
      <4>. DEFINE j == [job[c] EXCEPT !.step = "unregister", !.id = marker[c]]
      <4>1. j \in Job /\ j.step = "unregister"
        BY <1>2 DEF Job, Steps
      <4>2. job' = [job EXCEPT ![c] = j]
        BY <1>1, <3>2 DEF TypeOK
      <4>. HIDE DEF j
      <4>. QED BY <1>1, <4>1, <4>2, JobMoves
    <3>. QED BY <1>3, <3>1, <3>2 DEF UnbindOffer
  <2>2. cfg' \in [Nodes -> Config]
    BY <1>3, UnbindTyped DEF UnbindOffer, TypeOK
  <2>3. faults' \in 0 .. MaxFaults /\ released' \subseteq Consumers
    BY <1>3, FaultTyped DEF UnbindOffer, TypeOK
  <2>. QED BY <1>3, <2>1, <2>2, <2>3 DEF UnbindOffer, TypeOK
<1>4. CASE Unregister(c)
  <2>1. "prune" \in Steps
    BY DEF Steps
  <2>2. job' \in [Nodes -> Job] /\ JobKept'
    BY <1>1, <1>4, <2>1, JobExits, JobGoes DEF Unregister
  <2>3. cfg' \in [Nodes -> Config]
    BY <1>1, <1>4, RemoteTyped DEF Unregister, TypeOK
  <2>4. faults' \in 0 .. MaxFaults
    BY <1>4, FaultTyped DEF Unregister, TypeOK
  <2>. QED BY <1>4, <2>2, <2>3, <2>4 DEF Unregister, TypeOK
<1>5. CASE Connect(c)
  <2>. DEFINE mine   == [cfg[c] EXCEPT !.peers = @ \cup {Provider}]
              theirs == [cfg[Provider] EXCEPT !.peers = @ \cup {c}]
  <2>1. mine \in Config /\ theirs \in Config
    BY <1>1, NodeTyped DEF Config
  <2>2. cfg' = [cfg EXCEPT ![Provider] = theirs, ![c] = mine]
    BY <1>1, <1>5 DEF Connect, TypeOK
  <2>. HIDE DEF mine, theirs
  <2>3. cfg' \in [Nodes -> Config]
    BY <2>1, <2>2 DEF TypeOK
  <2>4. commands' \in 0 .. MaxCommands /\ granted' \subseteq Consumers
    BY <1>5, BindingAssumption DEF Connect, TypeOK
  <2>. QED BY <1>5, <2>3, <2>4 DEF Connect, TypeOK, JobKept
<1>. QED BY <1>3, <1>4, <1>5

LEMMA ProviderTyped ==
  ASSUME TypeInv, Share \/ Withdraw
  PROVE  TypeInv'
<1>. USE DEF TypeInv
<1>1. Provider \in Nodes
  BY NodesDistinct
<1>2. cfg' \in [Nodes -> Config]
  BY <1>1, SharedTyped DEF Share, Withdraw, TypeOK
<1>3. CASE Share
  <2>1. commands' \in 0 .. MaxCommands
    BY <1>3, BindingAssumption DEF Share, TypeOK
  <2>2. PICK id \in Ids : marker' = [marker EXCEPT ![Provider] = id]
    BY <1>3 DEF Share
  <2>3. marker' \in [Nodes -> Ids \cup {NoId}]
    BY <2>2 DEF TypeOK
  <2>. QED BY <1>2, <1>3, <2>1, <2>3 DEF Share, TypeOK, JobKept
<1>4. CASE Withdraw
  <2>1. "prune" \in Steps
    BY DEF Steps
  <2>2. job' \in [Nodes -> Job] /\ JobKept'
    BY <1>1, <1>4, <2>1, JobExits, JobGoes DEF Withdraw
  <2>3. released' \subseteq Consumers
    BY <1>4 DEF Withdraw, TypeOK
  <2>. QED BY <1>2, <1>4, <2>2, <2>3 DEF Withdraw, TypeOK
<1>. QED BY <1>3, <1>4

LEMMA WithoutTyped ==
  ASSUME TypeOK, NEW n \in Nodes
  PROVE  Without(n) \in Config
BY NodeTyped DEF Without, Config

LEMMA NodeStepsTyped ==
  ASSUME TypeInv, NEW n \in Nodes,
         \/ Prune(n) \/ Revoke(n) \/ Forget(n) \/ CycleStart(n) \/ CycleSave(n)
         \/ EditOpen(n) \/ EditInstall(n) \/ Die(n)
  PROVE  TypeInv'
<1>. USE DEF TypeInv
<1>1. cfg[n] \in Config /\ job[n] \in Job /\ marker[n] \in Ids \cup {NoId}
  BY NodeTyped
<1>2. Offer \in Consumers \cup {NoPeer, NotShared} /\ Offer # Provider
  BY NodeTyped, NodesDistinct DEF Offer
<1>3. Offer = n => n \in Consumers
  BY <1>2, NodesDistinct DEF Nodes
<1>4. CASE Prune(n)
  BY <1>4, JobExits DEF Prune, TypeOK
<1>5. CASE Revoke(n)
  <2>1. "forget" \in Steps
    BY DEF Steps
  <2>2. job' \in [Nodes -> Job] /\ JobKept'
    BY <1>5, <2>1, JobExits, JobGoes DEF Revoke
  <2>. QED BY <1>5, <2>2 DEF Revoke, TypeOK
<1>6. CASE Forget(n)
  <2>1. "prune" \in Steps
    BY DEF Steps
  <2>2. job' \in [Nodes -> Job] /\ JobKept'
    BY <1>6, <2>1, JobExits, JobGoes DEF Forget
  <2>3. cfg' \in [Nodes -> Config]
    <3>1. CASE cfg' = cfg
      BY <3>1 DEF TypeOK
    <3>2. CASE cfg' = [cfg EXCEPT ![n] = IF job[n].peer \in @.peers THEN Without(n) ELSE @]
      <4>1. PICK e \in Config : cfg' = [cfg EXCEPT ![n] = e]
        BY <1>1, <3>2, WithoutTyped DEF TypeOK
      <4>. QED BY <4>1, ConfigChanges
    <3>. QED BY <1>6, <3>1, <3>2 DEF Forget
  <2>4. job[n].shared => job[n].peer \in Consumers
    BY <1>6 DEF Forget, At, JobKept
  <2>5. released' \subseteq Consumers /\ abandoned' \subseteq Consumers
    BY <1>3, <1>6, <2>4 DEF Forget, TypeOK
  <2>. QED BY <1>6, <2>2, <2>3, <2>5 DEF Forget, TypeOK
<1>7. CASE CycleStart(n)
  <2>1. commands' \in 0 .. MaxCommands
    BY <1>7, BindingAssumption DEF CycleStart, TypeOK
  <2>. QED BY <1>1, <1>7, <2>1 DEF CycleStart, TypeOK, JobKept
<1>8. CASE CycleSave(n)
  <2>1. index' \in [Nodes -> SUBSET Ids] /\ cycle' \in [Nodes -> Ids \cup {NoId}]
    BY <1>8 DEF CycleSave, TypeOK
  <2>. QED BY <1>8, <2>1 DEF CycleSave, TypeOK, JobKept
<1>9. CASE EditOpen(n)
  <2>1. commands' \in 0 .. MaxCommands
    BY <1>9, BindingAssumption DEF EditOpen, TypeOK
  <2>. QED BY <1>1, <1>9, <2>1 DEF EditOpen, TypeOK, JobKept
<1>10. CASE EditInstall(n)
  <2>1. NoConfig \in Config /\ editor[n] \in Config
    BY DEF NoConfig, Config, TypeOK
  <2>2. Edits(editor[n]) \subseteq Config
    BY <2>1 DEF Edits, Config
  <2>3. cfg' \in [Nodes -> Config]
    BY <1>10, <2>2, ConfigChanges DEF EditInstall, TypeOK
  <2>4. editor' \in [Nodes -> Config]
    BY <1>10, <2>1 DEF EditInstall, TypeOK
  <2>5. released' \subseteq Consumers /\ abandoned' \subseteq Consumers
    BY <1>3, <1>10 DEF EditInstall, TypeOK
  <2>. QED BY <1>10, <2>3, <2>4, <2>5 DEF EditInstall, TypeOK, JobKept
<1>11. CASE Die(n)
  <2>1. faults' \in 0 .. MaxFaults /\ job' \in [Nodes -> Job] /\ JobKept'
    BY <1>11, FaultTyped, JobExits DEF Die
  <2>2. abandoned' \subseteq Consumers
    BY <1>3, <1>11 DEF Die, TypeOK
  <2>. QED BY <1>11, <2>1, <2>2 DEF Die, TypeOK
<1>. QED BY <1>4, <1>5, <1>6, <1>7, <1>8, <1>9, <1>10, <1>11

LEMMA InitTyped == Init => TypeInv
<1>. SUFFICES ASSUME Init PROVE TypeInv
  OBVIOUS
<1>1. NoJob \in Job /\ NoJob.step = "idle" /\ NoConfig \in Config
  BY DEF NoJob, Job, Steps, NoConfig, Config
<1>2. cfg \in [Nodes -> Config]
  BY DEF Init, Config, Nodes
<1>3. marker \in [Nodes -> Ids \cup {NoId}]
  BY DEF Init
<1>4. job \in [Nodes -> Job] /\ JobKept
  BY <1>1 DEF Init, JobKept
<1>5. /\ index \in [Nodes -> SUBSET Ids] /\ cycle \in [Nodes -> Ids \cup {NoId}]
      /\ editor \in [Nodes -> Config]
  BY <1>1 DEF Init
<1>6. /\ granted \subseteq Consumers /\ released \subseteq Consumers
      /\ abandoned \subseteq Consumers /\ commands \in 0 .. MaxCommands
      /\ faults \in 0 .. MaxFaults
  BY BindingAssumption DEF Init
<1>. QED BY <1>2, <1>3, <1>4, <1>5, <1>6 DEF TypeInv, TypeOK

LEMMA NextTyped == TypeInv /\ [Next]_vars => TypeInv'
<1>1. TypeInv /\ UNCHANGED vars => TypeInv'
  BY DEF vars, TypeInv, TypeOK, JobKept
<1>2. TypeInv /\ Next => TypeInv'
  BY StartsTyped, AttachTyped, DetachTyped, ProviderTyped, NodeStepsTyped
     DEF Next, ConsumerStep, NodeStep
<1>. QED BY <1>1, <1>2

\* Whatever commands, cycles, edits and deaths do in whatever order, every variable
\* keeps its type: only consumers are granted, released and abandoned, and a command
\* that removes a peer carries a peer of the right kind.
THEOREM TypeCorrect == Spec => []TypeOK
BY InitTyped, NextTyped, PTL DEF Spec, TypeInv

-------------------------------------------------------------------------------
(* Who the offer is bound to. *)

LEMMA SharedIsOffer ==
  ASSUME TypeOK, NEW s, cfg' = SharedAs(Provider, s)
  PROVE  Offer' = s /\ \A c \in Consumers : cfg'[c] = cfg[c]
<1>1. Provider \in Nodes /\ \A c \in Consumers : c \in Nodes /\ c # Provider
  BY NodesDistinct
<1>. QED BY <1>1 DEF SharedAs, Offer, TypeOK, Config

LEMMA OfferStays ==
  ASSUME TypeOK, NEW c \in Consumers, NEW e, cfg' = [cfg EXCEPT ![c] = e]
  PROVE  Offer' = Offer /\ \A d \in Consumers : d # c => cfg'[d] = cfg[d]
BY NodesDistinct DEF TypeOK, Offer

\* A step that takes a bound offer away from a consumer records that, and the
\* record is only cleared by a binding to that consumer.
LEMMA HeldStays ==
  ASSUME TypeInv, Next, NEW c \in Consumers, Held(c)
  PROVE  Held(c)'
<1>. USE DEF TypeInv
<1>1. /\ c \in Nodes /\ Provider \in Nodes /\ c # Provider /\ c # NoPeer
      /\ \A d \in Consumers : d \in Nodes /\ d # Provider
  BY NodesDistinct
<1>2. /\ Offer \in Consumers \cup {NoPeer, NotShared} /\ NotShared \notin Consumers
      /\ NoPeer \notin Consumers
  BY <1>1, NodeTyped, NodesDistinct DEF Offer
<1>3. ASSUME UNCHANGED <<cfg, released>> PROVE Held(c)'
  BY <1>3 DEF Held, Offer
<1>4. ASSUME NEW d \in Consumers, Unbind(d), released' = released \cup {d}
      PROVE  Held(c)'
  <2>1. CASE Offer = d
    <3>1. Offer' = NoPeer
      BY <1>4, <2>1, SharedIsOffer DEF Unbind
    <3>. QED BY <1>4, <2>1 DEF Held
  <2>2. CASE Offer # d
    BY <1>4, <2>2 DEF Unbind, Held, Offer
  <2>. QED BY <2>1, <2>2
<1>5. ASSUME NEW d \in Consumers, Bindable(d), Bind(d) PROVE Held(c)'
  <2>1. Offer' = d /\ Offer \in {NoPeer, d} /\ released' = released \ {d}
    BY <1>5, SharedIsOffer DEF Bindable, Bind
  <2>. QED BY <1>1, <2>1 DEF Held
<1>6. ASSUME NEW d \in Consumers, released' = released,
             cfg' = cfg \/ \E e : cfg' = [cfg EXCEPT ![d] = e]
      PROVE  Held(c)'
  BY <1>6, OfferStays DEF Held, Offer
<1>7. ASSUME NEW d \in Consumers, ConsumerStep(d) PROVE Held(c)'
  <2>1. CASE AttachNew(d) \/ AttachAgain(d) \/ Detach(d) \/ ListOffer(d) \/ Validate(d)
    BY <1>3, <2>1 DEF AttachNew, AttachAgain, Detach, Starts, ListOffer, Validate
  <2>2. CASE BindOffer(d)
    BY <1>3, <1>5, <2>2 DEF BindOffer
  <2>3. CASE Register(d) \/ Unregister(d)
    <3>1. ASSUME NEW r, cfg' = [cfg EXCEPT ![d].remote = r]
          PROVE  \E e : cfg' = [cfg EXCEPT ![d] = e]
      BY <3>1, NodesDistinct DEF TypeOK
    <3>. QED BY <1>6, <2>3, <3>1 DEF Register, Unregister
  <2>4. CASE Undo(d) \/ UnbindOffer(d)
    BY <1>3, <1>4, <2>4 DEF Undo, UnbindOffer
  <2>5. CASE Connect(d)
    <3>1. Offer' = Offer
      BY <1>1, <2>5 DEF Connect, Offer, TypeOK, Config
    <3>. QED BY <2>5, <3>1 DEF Connect, Held
  <2>. QED BY <1>7, <2>1, <2>2, <2>3, <2>4, <2>5 DEF ConsumerStep
<1>8. CASE Share
  <2>1. Offer = NotShared /\ Offer' = NoPeer /\ released' = released
    BY <1>8, SharedIsOffer DEF Share
  <2>. QED BY <1>2, <2>1 DEF Held
<1>9. CASE Unshare
  BY <1>3, <1>9 DEF Unshare, Starts
<1>10. CASE Withdraw
  <2>1. CASE released' = released \cup ({Offer} \cap Consumers)
    BY <2>1 DEF Held
  <2>. QED BY <1>3, <1>10, <2>1 DEF Withdraw
<1>11. ASSUME NEW n \in Nodes, NodeStep(n) PROVE Held(c)'
  <2>1. n = Provider \/ n \in Consumers
    BY DEF Nodes
  <2>2. CASE \/ Prune(n) \/ Remove(n) \/ Revoke(n) \/ CycleStart(n) \/ CycleSave(n)
             \/ EditOpen(n) \/ Die(n)
    BY <1>3, <2>2 DEF Prune, Remove, Starts, Revoke, CycleStart, CycleSave, EditOpen, Die
  <2>3. CASE Forget(n)
    <3>1. CASE UNCHANGED <<cfg, released>>
      BY <1>3, <3>1
    <3>2. CASE /\ cfg' = [cfg EXCEPT ![n] = IF job[n].peer \in @.peers THEN Without(n) ELSE @]
               /\ released' = IF n = Provider /\ job[n].shared
                                 THEN released \cup {job[n].peer} ELSE released
      <4>1. CASE n \in Consumers
        <5>1. \E e : cfg' = [cfg EXCEPT ![n] = e]
          BY <1>1, <3>2 DEF TypeOK
        <5>. QED BY <1>1, <1>6, <3>2, <4>1, <5>1
      <4>2. CASE n = Provider
        <5>1. cfg'[Provider] = cfg[Provider] \/ cfg'[Provider] = Without(Provider)
          BY <1>1, <3>2, <4>2 DEF TypeOK
        <5>2. \/ Offer' = Offer
              \/ Offer' = NoPeer /\ job[Provider].shared /\ Offer = job[Provider].peer
          BY <5>1 DEF Offer, Without
        <5>. QED BY <3>2, <4>2, <5>2 DEF Held
      <4>. QED BY <2>1, <4>1, <4>2
    <3>. QED BY <2>3, <3>1, <3>2 DEF Forget
  <2>4. CASE EditInstall(n)
    <3>1. CASE UNCHANGED <<cfg, released>>
      BY <1>3, <3>1
    <3>2. ASSUME NEW e, cfg' = [cfg EXCEPT ![n] = e], Installable(n),
                 released' = released \cup (({editor[n].shared} \ {e.shared}) \cap Consumers)
          PROVE  Held(c)'
      <4>1. CASE n \in Consumers
        <5>1. Offer' = Offer
          BY <3>2, <4>1, OfferStays
        <5>. QED BY <3>2, <5>1 DEF Held
      <4>2. CASE n = Provider
        <5>1. Offer' = e.shared /\ Offer = editor[n].shared
          BY <1>1, <3>2, <4>2 DEF Offer, Installable, TypeOK
        <5>. QED BY <3>2, <5>1 DEF Held
      <4>. QED BY <2>1, <4>1, <4>2
    <3>. QED BY <2>4, <3>1, <3>2 DEF EditInstall
  <2>. QED BY <1>11, <2>2, <2>3, <2>4 DEF NodeStep
<1>. QED BY <1>7, <1>8, <1>9, <1>10, <1>11 DEF Next

-------------------------------------------------------------------------------
(* What steps of others leave alone, and what c's own do. *)

Untouched(c) ==
  /\ job'[c] = job[c] /\ cfg'[c].remote = cfg[c].remote
  /\ c \in abandoned => c \in abandoned'
  /\ Offer' = c => Offer = c

Own(c) ==
  \/ AttachNew(c) \/ AttachAgain(c) \/ BindOffer(c) \/ ListOffer(c) \/ Register(c)
  \/ Validate(c) \/ Undo(c) \/ Detach(c) \/ UnbindOffer(c) \/ Unregister(c)
  \/ Prune(c) \/ Remove(c) \/ Revoke(c) \/ Forget(c) \/ EditInstall(c) \/ Die(c)

LEMMA JobElsewhere ==
  ASSUME TypeOK, NEW n \in Nodes, NEW c \in Nodes, c # n,
         \/ job' = job
         \/ \E j : job' = [job EXCEPT ![n] = j]
         \/ Exits(n) \/ FailAttach(n) \/ \E s : Goes(n, s)
  PROVE  job'[c] = job[c]
<1>1. ASSUME NEW m \in Nodes, Goes(m, "undo") \/ \E s : Goes(m, s)
      PROVE  \E j : job' = [job EXCEPT ![m] = j]
  BY <1>1 DEF Goes, TypeOK
<1>. QED BY <1>1 DEF Exits, FailAttach, TypeOK

\* Nobody else touches a consumer's registration, its command, or binds the offer
\* to it.
LEMMA OthersUntouched ==
  ASSUME TypeInv, Next, NEW c \in Consumers, ~Own(c)
  PROVE  Untouched(c)
<1>. USE DEF TypeInv
<1>1. /\ c \in Nodes /\ Provider \in Nodes /\ c # Provider
      /\ c # NoPeer /\ c # NotShared
      /\ \A d \in Consumers : d \in Nodes /\ d # Provider
  BY NodesDistinct
<1>2. ASSUME UNCHANGED <<cfg, job, abandoned>> PROVE Untouched(c)
  BY <1>2 DEF Untouched, Offer
<1>3. ASSUME NEW n \in Nodes, n # c, NEW j, Starts(n, j) PROVE Untouched(c)
  <2>1. job'[c] = job[c]
    BY <1>1, <1>3, JobElsewhere DEF Starts
  <2>. QED BY <1>3, <2>1 DEF Starts, Untouched, Offer
<1>4. ASSUME NEW d \in Consumers, ConsumerStep(d) PROVE Untouched(c)
  <2>1. CASE Connect(d)
    <3>1. Offer' = Offer /\ cfg'[c].remote = cfg[c].remote
      BY <1>1, <2>1 DEF Connect, Offer, TypeOK, Config
    <3>. QED BY <2>1, <3>1 DEF Connect, Untouched
  <2>2. CASE ~Connect(d)
    <3>1. d # c
      BY <1>4, <2>2 DEF ConsumerStep, Own
    <3>2. CASE AttachNew(d) \/ AttachAgain(d) \/ Detach(d)
      BY <1>1, <1>3, <3>1, <3>2 DEF AttachNew, AttachAgain, Detach
    <3>3. CASE BindOffer(d)
      <4>1. job'[c] = job[c]
        <5>1. CASE Exits(d)
          BY <1>1, <3>1, <5>1, JobElsewhere
        <5>2. CASE job' = [job EXCEPT ![d].created = Offer = NoPeer,
                             ![d].step = IF job[d].remote THEN "validate" ELSE "list"]
          BY <1>1, <3>1, <5>2 DEF TypeOK
        <5>. QED BY <3>3, <5>1, <5>2 DEF BindOffer
      <4>2. c \in abandoned => c \in abandoned'
        BY <3>1, <3>3 DEF BindOffer
      <4>3. \/ Offer' = d /\ cfg'[c] = cfg[c]
            \/ cfg' = cfg
        BY <3>3, SharedIsOffer DEF BindOffer, Bind
      <4>. QED BY <3>1, <4>1, <4>2, <4>3 DEF Untouched, Offer
    <3>4. CASE ListOffer(d) \/ Validate(d)
      <4>1. job'[c] = job[c]
        <5>1. CASE Exits(d) \/ FailAttach(d)
          BY <1>1, <3>1, <5>1, JobElsewhere
        <5>2. CASE job' = [job EXCEPT ![d].step = "register", ![d].id = marker[Provider]]
          BY <1>1, <3>1, <5>2 DEF TypeOK
        <5>. QED BY <3>4, <5>1, <5>2 DEF ListOffer, Validate
      <4>. QED BY <3>4, <4>1 DEF ListOffer, Validate, Untouched, Offer
    <3>5. CASE Register(d) \/ Unregister(d)
      <4>1. job'[c] = job[c]
        BY <1>1, <3>1, <3>5, JobElsewhere DEF Register, Unregister
      <4>2. Offer' = Offer /\ cfg'[c] = cfg[c]
        BY <1>1, <3>1, <3>5 DEF Register, Unregister, TypeOK, Offer
      <4>. QED BY <3>1, <3>5, <4>1, <4>2 DEF Register, Unregister, Untouched
    <3>6. CASE Undo(d) \/ UnbindOffer(d)
      <4>1. job'[c] = job[c]
        <5>1. CASE Exits(d)
          BY <1>1, <3>1, <5>1, JobElsewhere
        <5>2. CASE job' = [job EXCEPT ![d].step = "unregister", ![d].id = marker[d]]
          BY <1>1, <3>1, <5>2 DEF TypeOK
        <5>. QED BY <3>6, <5>1, <5>2 DEF Undo, UnbindOffer
      <4>2. \/ Offer' = NoPeer /\ cfg'[c] = cfg[c]
            \/ cfg' = cfg
        BY <3>6, SharedIsOffer DEF Undo, UnbindOffer, Unbind
      <4>. QED BY <1>1, <3>6, <4>1, <4>2 DEF Undo, UnbindOffer, Untouched, Offer
    <3>. QED BY <1>4, <2>2, <3>2, <3>3, <3>4, <3>5, <3>6 DEF ConsumerStep
  <2>. QED BY <2>1, <2>2
<1>5. CASE Share
  <2>1. Offer' = NoPeer /\ cfg'[c] = cfg[c]
    BY <1>5, SharedIsOffer DEF Share
  <2>. QED BY <1>1, <1>5, <2>1 DEF Share, Untouched
<1>6. CASE Unshare
  BY <1>1, <1>3, <1>6 DEF Unshare
<1>7. CASE Withdraw
  <2>1. job'[c] = job[c]
    BY <1>1, <1>7, JobElsewhere DEF Withdraw
  <2>2. \/ Offer' = NotShared /\ cfg'[c] = cfg[c]
        \/ cfg' = cfg
    BY <1>7, SharedIsOffer DEF Withdraw
  <2>. QED BY <1>1, <1>7, <2>1, <2>2 DEF Withdraw, Untouched, Offer
<1>8. ASSUME NEW n \in Nodes, NodeStep(n) PROVE Untouched(c)
  <2>1. CASE CycleStart(n) \/ CycleSave(n) \/ EditOpen(n)
    BY <1>2, <2>1 DEF CycleStart, CycleSave, EditOpen
  <2>2. CASE \/ Prune(n) \/ Remove(n) \/ Revoke(n) \/ Forget(n)
             \/ EditInstall(n) \/ Die(n)
    <3>1. n # c
      BY <2>2 DEF Own
    <3>2. CASE Remove(n)
      BY <1>3, <3>1, <3>2 DEF Remove
    <3>3. CASE Prune(n) \/ Revoke(n) \/ Die(n)
      <4>1. job'[c] = job[c]
        BY <1>1, <3>1, <3>3, JobElsewhere DEF Prune, Revoke, Die
      <4>. QED BY <3>3, <4>1 DEF Prune, Revoke, Die, Untouched, Offer
    <3>4. CASE Forget(n)
      <4>1. job'[c] = job[c]
        BY <1>1, <3>1, <3>4, JobElsewhere DEF Forget
      <4>2. cfg'[c] = cfg[c]
        BY <1>1, <3>1, <3>4 DEF Forget, TypeOK
      <4>3. Offer' \in {Offer, NoPeer}
        <5>1. cfg'[Provider] \in {cfg[Provider], Without(n)} /\ (n # Provider => cfg'[Provider] = cfg[Provider])
          BY <1>1, <3>4 DEF Forget, TypeOK
        <5>. QED BY <5>1 DEF Offer, Without
      <4>4. c \in abandoned => c \in abandoned'
        BY <3>4 DEF Forget
      <4>. QED BY <1>1, <4>1, <4>2, <4>3, <4>4 DEF Untouched
    <3>5. CASE EditInstall(n)
      <4>1. job' = job /\ (c \in abandoned => c \in abandoned')
        BY <3>5 DEF EditInstall
      <4>2. \/ cfg' = cfg
            \/ cfg[n] = editor[n] /\ \E e \in Edits(editor[n]) : cfg' = [cfg EXCEPT ![n] = e]
        BY <3>5 DEF EditInstall, Installable
      <4>3. cfg'[c] = cfg[c]
        BY <1>1, <3>1, <4>2 DEF TypeOK
      <4>4. Offer' \in {Offer, NoPeer}
        <5>1. CASE cfg' = cfg
          BY <5>1 DEF Offer
        <5>2. ASSUME cfg[n] = editor[n], NEW e \in Edits(editor[n]), cfg' = [cfg EXCEPT ![n] = e]
              PROVE  Offer' \in {Offer, NoPeer}
          <6>1. CASE n # Provider
            BY <1>1, <5>2, <6>1 DEF Offer, TypeOK
          <6>2. CASE n = Provider
            <7>1. e.shared \in {editor[n].shared, NoPeer}
              BY <5>2 DEF Edits, TypeOK, Config
            <7>. QED BY <1>1, <5>2, <6>2, <7>1 DEF Offer, TypeOK
          <6>. QED BY <6>1, <6>2
        <5>. QED BY <4>2, <5>1, <5>2
      <4>. QED BY <1>1, <4>1, <4>3, <4>4 DEF Untouched
    <3>. QED BY <2>2, <3>2, <3>3, <3>4, <3>5
  <2>. QED BY <1>8, <2>1, <2>2 DEF NodeStep
<1>. QED BY <1>4, <1>5, <1>6, <1>7, <1>8 DEF Next

LEMMA OwnJob ==
  ASSUME TypeOK, NEW n \in Nodes
  PROVE  /\ Exits(n) => job'[n].step = "idle"
         /\ \A s : Goes(n, s) => job'[n].step = s /\ job'[n].created = job[n].created
         /\ FailAttach(n) => \/ job'[n].step = "idle" /\ ~job[n].created
                             \/ job'[n].step = "undo" /\ job[n].created /\ job'[n].created
<1>1. NoJob.step = "idle"
  BY DEF NoJob
<1>2. Exits(n) => job'[n].step = "idle"
  BY <1>1 DEF Exits, TypeOK
<1>3. ASSUME NEW s, Goes(n, s) PROVE job'[n].step = s /\ job'[n].created = job[n].created
  <2>1. job'[n] = [job[n] EXCEPT !.step = s]
    BY <1>3 DEF Goes, TypeOK
  <2>. QED BY <2>1, NodeTyped DEF Job
<1>. QED BY <1>2, <1>3 DEF FailAttach

\* What one step of c must establish, given the invariant before it.
Kept(c) == /\ Claims(c)' => Claims(c) \/ Held(c)'
           /\ Accounted(c)' /\ Unregistered(c)'

LEMMA StartsKept ==
  ASSUME BindingInv, NEW c \in Consumers, NEW j \in Job, Starts(c, j),
         j.step \in {"bind", "unbind", "revoke"}, ~j.created
  PROVE  Kept(c)
<1>1. c \in Nodes /\ TypeOK
  BY NodesDistinct DEF BindingInv, TypeInv
<1>2. job'[c] = j /\ job[c].step = "idle"
  BY <1>1 DEF Starts, TypeOK
<1>3. Offer' = Offer /\ cfg' = cfg /\ abandoned' = abandoned
  BY DEF Starts, Offer
<1>4. Accounted(c)
  BY DEF BindingInv, BindingsAccounted
<1>5. ~Undoes(c)
  BY <1>2 DEF Undoes
<1>. QED BY <1>2, <1>3, <1>4, <1>5 DEF Kept, Accounted, Unregistered, Claims, Undoes

LEMMA AttachKept ==
  ASSUME BindingInv, NEW c \in Consumers,
         BindOffer(c) \/ ListOffer(c) \/ Register(c) \/ Validate(c) \/ Undo(c)
  PROVE  Kept(c)
<1>1. c \in Nodes /\ TypeOK /\ c # NoPeer /\ c # Provider /\ c # NotShared /\ Provider # NoPeer
  BY NodesDistinct DEF BindingInv, TypeInv
<1>2. Accounted(c) /\ job[c] \in Job /\ cfg[c] \in Config
  BY <1>1, NodeTyped DEF BindingInv, BindingsAccounted
<1>3. CASE BindOffer(c)
  <2>1. Bind(c) => Offer' = c /\ cfg'[c] = cfg[c]
    BY <1>1, SharedIsOffer DEF Bind
  <2>2. job[c].step = "bind" /\ ~Undoes(c)
    BY <1>3 DEF BindOffer, At, Undoes
  <2>3. CASE /\ Bindable(c) /\ Bind(c)
             /\ job' = [job EXCEPT ![c].created = Offer = NoPeer,
                                   ![c].step = IF job[c].remote THEN "validate" ELSE "list"]
             /\ abandoned' = IF Offer = NoPeer THEN abandoned \ {c} ELSE abandoned
             /\ UNCHANGED faults
    <3>1. /\ job'[c].created = (Offer = NoPeer)
          /\ job'[c].step \in {"validate", "list"}
      BY <1>1, <1>2, <2>3 DEF TypeOK, Job
    <3>2. Offer = NoPeer \/ Offer = c
      BY <2>3 DEF Bindable
    <3>. QED BY <1>2, <2>1, <2>2, <2>3, <3>1, <3>2
             DEF Kept, Accounted, Unregistered, Claims, Undoes
  <2>4. CASE Bindable(c) /\ Bind(c) /\ Exits(c) /\ Fault /\ abandoned' = abandoned \cup {c}
    <3>1. job'[c].step = "idle"
      BY <1>1, <2>4, OwnJob
    <3>. QED BY <2>1, <2>4, <3>1 DEF Kept, Accounted, Unregistered, Claims
  <2>5. CASE Exits(c) /\ UNCHANGED <<cfg, released, abandoned, faults>>
    <3>1. job'[c].step = "idle" /\ Offer' = Offer
      BY <1>1, <2>5, OwnJob DEF Offer
    <3>. QED BY <1>2, <2>2, <2>5, <3>1 DEF Kept, Accounted, Unregistered, Claims, Undoes
  <2>. QED BY <1>3, <2>3, <2>4, <2>5 DEF BindOffer
<1>4. CASE ListOffer(c) \/ Validate(c)
  <2>1. Offer' = Offer /\ cfg' = cfg /\ abandoned' = abandoned /\ released' = released
    BY <1>4 DEF ListOffer, Validate, Offer
  <2>2. CASE FailAttach(c)
    <3>1. \/ job'[c].step = "idle" /\ ~job[c].created
          \/ job'[c].step = "undo" /\ job[c].created /\ job'[c].created
      BY <1>1, <2>2, OwnJob
    <3>. QED BY <1>2, <2>1, <3>1 DEF Kept, Accounted, Unregistered, Claims, Undoes
  <2>3. CASE /\ ListOffer(c) /\ Offer = c
             /\ job' = [job EXCEPT ![c].step = "register", ![c].id = marker[Provider]]
    <3>1. job'[c].step = "register" /\ job'[c].created = job[c].created /\ job[c].step = "list"
      BY <1>1, <1>2, <2>3 DEF TypeOK, Job, ListOffer, At
    <3>. QED BY <1>2, <2>1, <2>3, <3>1 DEF Kept, Accounted, Unregistered, Claims, Undoes, Held
  <2>4. CASE Validate(c) /\ cfg[c].remote = Provider /\ Exits(c)
    <3>1. job'[c].step = "idle"
      BY <1>1, <2>4, OwnJob
    <3>. QED BY <1>1, <2>1, <2>4, <3>1 DEF Kept, Accounted, Unregistered, Claims
  <2>. QED BY <1>4, <2>2, <2>3, <2>4 DEF ListOffer, Validate
<1>5. CASE Register(c)
  <2>1. job[c].step = "register" /\ Claims(c)
    BY <1>5 DEF Register, At, Claims
  <2>2. CASE FailAttach(c) /\ UNCHANGED <<cfg, marker, abandoned>>
    <3>1. \/ job'[c].step = "idle" /\ ~job[c].created
          \/ job'[c].step = "undo" /\ job[c].created /\ job'[c].created
      BY <1>1, <2>2, OwnJob
    <3>. QED BY <1>2, <2>1, <2>2, <3>1 DEF Kept, Accounted, Unregistered, Undoes, Offer
  <2>3. CASE Exits(c) /\ cfg' = [cfg EXCEPT ![c].remote = Provider]
    <3>1. job'[c].step = "idle" /\ cfg'[c].remote = Provider
      BY <1>1, <1>2, <2>3, OwnJob DEF TypeOK, Config
    <3>. QED BY <1>1, <2>1, <3>1 DEF Kept, Accounted, Unregistered
  <2>. QED BY <1>5, <2>2, <2>3 DEF Register
<1>6. CASE Undo(c)
  <2>1. job'[c].step = "idle" /\ job[c].step = "undo"
    BY <1>1, <1>6, OwnJob DEF Undo, At
  <2>2. CASE Unbind(c)
    <3>1. Offer' # c /\ cfg'[c].remote = cfg[c].remote
      BY <1>1, <2>2, SharedIsOffer DEF Unbind, Offer
    <3>. QED BY <2>1, <3>1 DEF Kept, Accounted, Unregistered, Claims
  <2>3. CASE abandoned' = abandoned \cup {c} /\ UNCHANGED cfg
    BY <2>1, <2>3 DEF Kept, Accounted, Unregistered, Claims
  <2>. QED BY <1>6, <2>2, <2>3 DEF Undo
<1>. QED BY <1>3, <1>4, <1>5, <1>6

LEMMA DetachKept ==
  ASSUME BindingInv, NEW c \in Consumers, UnbindOffer(c) \/ Unregister(c) \/ Prune(c)
  PROVE  Kept(c)
<1>1. c \in Nodes /\ TypeOK /\ c # NoPeer /\ c # NotShared /\ Provider # NoPeer
  BY NodesDistinct DEF BindingInv, TypeInv
<1>2. Accounted(c) /\ Unregistered(c) /\ job[c] \in Job /\ cfg[c] \in Config
  BY <1>1, NodeTyped DEF BindingInv, BindingsAccounted, PrunesUnregistered
<1>3. CASE UnbindOffer(c)
  <2>1. job[c].step = "unbind" /\ abandoned' = abandoned /\ ~Undoes(c)
    BY <1>3 DEF UnbindOffer, At, Undoes
  <2>2. CASE Unbind(c) /\ (Exits(c) \/ job' = [job EXCEPT ![c].step = "unregister",
                                                          ![c].id = marker[c]])
    <3>1. Offer' # c /\ cfg'[c].remote = cfg[c].remote
      BY <1>1, <2>2, SharedIsOffer DEF Unbind, Offer
    <3>2. job'[c].step \in {"idle", "unregister"}
      BY <1>1, <1>2, <2>2, OwnJob DEF TypeOK, Job
    <3>. QED BY <3>1, <3>2 DEF Kept, Accounted, Unregistered, Claims
  <2>3. CASE Exits(c) /\ UNCHANGED cfg
    <3>1. job'[c].step = "idle"
      BY <1>1, <2>3, OwnJob
    <3>. QED BY <1>2, <2>1, <2>3, <3>1 DEF Kept, Accounted, Unregistered, Claims, Offer
  <2>. QED BY <1>3, <2>2, <2>3 DEF UnbindOffer
<1>4. CASE Unregister(c)
  <2>1. job[c].step = "unregister" /\ Offer # c
    BY <1>2, <1>4 DEF Unregister, At, Accounted
  <2>2. CASE cfg' = [cfg EXCEPT ![c].remote = NoPeer] /\ (Goes(c, "prune") \/ Exits(c))
    <3>1. cfg'[c].remote = NoPeer /\ Offer' = Offer
      BY <1>1, <1>2, <2>2, NodesDistinct DEF TypeOK, Config, Offer
    <3>2. job'[c].step \in {"idle", "prune"}
      BY <1>1, <2>2, OwnJob
    <3>. QED BY <1>1, <2>1, <3>1, <3>2 DEF Kept, Accounted, Unregistered, Claims
  <2>3. CASE Exits(c) /\ UNCHANGED cfg
    <3>1. job'[c].step = "idle"
      BY <1>1, <2>3, OwnJob
    <3>. QED BY <2>1, <2>3, <3>1 DEF Kept, Accounted, Unregistered, Claims, Offer
  <2>. QED BY <1>4, <2>2, <2>3 DEF Unregister
<1>5. CASE Prune(c)
  <2>1. job[c].step = "prune" /\ job'[c].step = "idle"
    BY <1>1, <1>5, OwnJob DEF Prune, At
  <2>. QED BY <1>2, <1>5, <2>1 DEF Prune, Kept, Accounted, Unregistered, Claims, Undoes, Offer
<1>. QED BY <1>3, <1>4, <1>5

LEMMA RemovalKept ==
  ASSUME BindingInv, NEW c \in Consumers,
         Revoke(c) \/ Forget(c) \/ EditInstall(c) \/ Die(c)
  PROVE  Kept(c)
<1>1. /\ c \in Nodes /\ TypeOK /\ JobKept /\ c # NoPeer /\ c # NotShared /\ c # Provider
      /\ Provider # NoPeer /\ Provider \in Nodes
  BY NodesDistinct DEF BindingInv, TypeInv
<1>2. /\ Accounted(c) /\ Unregistered(c) /\ job[c] \in Job /\ cfg[c] \in Config
      /\ cfg[c].remote \in {Provider, NoPeer}
  BY <1>1, NodeTyped DEF BindingInv, BindingsAccounted, PrunesUnregistered
<1>3. CASE Revoke(c)
  <2>1. job[c].step = "revoke" /\ ~Undoes(c)
    BY <1>3 DEF Revoke, At, Undoes
  <2>2. job'[c].step \in {"idle", "forget"}
    BY <1>1, <1>3, OwnJob DEF Revoke
  <2>. QED BY <1>2, <1>3, <2>1, <2>2 DEF Revoke, Kept, Accounted, Unregistered, Claims, Undoes, Offer
<1>4. CASE Forget(c)
  <2>1. job[c].step = "forget" /\ ~Undoes(c)
    BY <1>4 DEF Forget, At, Undoes
  <2>2. CASE Exits(c) /\ UNCHANGED <<cfg, abandoned>>
    <3>1. job'[c].step = "idle"
      BY <1>1, <2>2, OwnJob
    <3>. QED BY <1>2, <2>1, <2>2, <3>1 DEF Kept, Accounted, Unregistered, Claims, Undoes, Offer
  <2>3. CASE /\ Forgettable(c)
             /\ cfg' = [cfg EXCEPT ![c] = IF job[c].peer \in @.peers THEN Without(c) ELSE @]
             /\ abandoned' = IF Offer = c THEN abandoned \cup {c} ELSE abandoned
             /\ IF job[c].remote THEN Goes(c, "prune") ELSE Exits(c)
    <3>1. Offer' = Offer
      BY <1>1, <2>3, OfferStays
    <3>2. cfg'[c] = IF job[c].peer \in cfg[c].peers THEN Without(c) ELSE cfg[c]
      BY <1>1, <2>3 DEF TypeOK
    <3>3. job[c].remote => cfg'[c].remote = NoPeer
      <4>1. CASE job[c].peer \in cfg[c].peers
        BY <3>2, <4>1 DEF Without
      <4>2. ASSUME job[c].remote, job[c].peer \notin cfg[c].peers PROVE cfg'[c].remote = NoPeer
        <5>1. job[c].peer = Provider
          BY <1>1, <2>1, <4>2 DEF JobKept
        <5>2. cfg[c].remote = NoPeer
          BY <1>2, <2>3, <4>2, <5>1 DEF Forgettable, Valid
        <5>. QED BY <3>2, <4>2, <5>2
      <4>. QED BY <4>1, <4>2
    <3>4. cfg'[c].remote \in {cfg[c].remote, NoPeer}
      BY <3>2 DEF Without
    <3>5. job'[c].step = IF job[c].remote THEN "prune" ELSE "idle"
      BY <1>1, <2>3, OwnJob
    <3>. QED BY <1>1, <2>3, <3>1, <3>3, <3>4, <3>5 DEF Kept, Accounted, Unregistered, Claims
  <2>. QED BY <1>4, <2>2, <2>3 DEF Forget
<1>5. CASE EditInstall(c)
  <2>1. job' = job
    BY <1>5 DEF EditInstall
  <2>2. CASE UNCHANGED <<cfg, abandoned>>
    BY <1>2, <2>1, <2>2 DEF Kept, Accounted, Unregistered, Claims, Undoes, Offer
  <2>3. ASSUME NEW e \in Edits(editor[c]), Installable(c), cfg' = [cfg EXCEPT ![c] = e],
               abandoned' = IF e.remote # editor[c].remote /\ Offer = c
                              THEN abandoned \cup {c} ELSE abandoned
        PROVE  Kept(c)
    <3>1. Offer' = Offer /\ cfg'[c] = e /\ editor[c] = cfg[c]
      BY <1>1, <2>3, OfferStays DEF TypeOK, Installable
    <3>2. e.remote \in {cfg[c].remote, NoPeer}
      BY <1>2, <3>1 DEF Edits, Config
    <3>. QED BY <1>1, <1>2, <2>1, <2>3, <3>1, <3>2 DEF Kept, Accounted, Unregistered, Claims, Undoes
  <2>. QED BY <1>5, <2>2, <2>3 DEF EditInstall
<1>6. CASE Die(c)
  <2>1. job'[c].step = "idle"
    BY <1>1, <1>6, OwnJob DEF Die
  <2>. QED BY <1>6, <2>1 DEF Die, Kept, Accounted, Unregistered, Claims, Offer
<1>. QED BY <1>3, <1>4, <1>5, <1>6

LEMMA OwnKept ==
  ASSUME BindingInv, NEW c \in Consumers, Own(c)
  PROVE  Kept(c)
<1>1. NoJob \in Job /\ ~NoJob.created
  BY DEF NoJob, Job, Steps
<1>2. c \in Nodes /\ TypeOK
  BY NodesDistinct DEF BindingInv, TypeInv
<1>3. CASE AttachNew(c) \/ AttachAgain(c) \/ Detach(c)
  <2>1. PICK fresh \in BOOLEAN : \/ Starts(c, [NoJob EXCEPT !.step = "bind", !.fresh = fresh])
                                 \/ Starts(c, [NoJob EXCEPT !.step = "bind", !.remote = TRUE])
                                 \/ Starts(c, [NoJob EXCEPT !.step = "unbind"])
    BY <1>3 DEF AttachNew, AttachAgain, Detach
  <2>. DEFINE a == [NoJob EXCEPT !.step = "bind", !.fresh = fresh]
              b == [NoJob EXCEPT !.step = "bind", !.remote = TRUE]
              d == [NoJob EXCEPT !.step = "unbind"]
  <2>2. \A j \in {a, b, d} : j \in Job /\ j.step \in {"bind", "unbind"} /\ ~j.created
    BY <1>1 DEF Job, Steps
  <2>3. Starts(c, a) \/ Starts(c, b) \/ Starts(c, d)
    BY <2>1
  <2>. HIDE DEF a, b, d
  <2>. QED BY <2>2, <2>3, StartsKept
<1>4. CASE Remove(c)
  <2>1. PICK m \in cfg[c].peers :
          Starts(c, [NoJob EXCEPT !.step = "revoke", !.peer = m, !.id = marker[c],
                                  !.shared = cfg[c].shared = m, !.remote = cfg[c].remote = m])
    BY <1>4 DEF Remove
  <2>. DEFINE j == [NoJob EXCEPT !.step = "revoke", !.peer = m, !.id = marker[c],
                                 !.shared = cfg[c].shared = m, !.remote = cfg[c].remote = m]
  <2>2. m \in Nodes /\ marker[c] \in Ids \cup {NoId}
    BY <1>2, NodeTyped
  <2>3. j \in Job /\ j.step = "revoke" /\ ~j.created
    BY <1>1, <2>2 DEF Job, Steps
  <2>4. Starts(c, j)
    BY <2>1
  <2>. HIDE DEF j
  <2>. QED BY <2>3, <2>4, StartsKept
<1>. QED BY <1>3, <1>4, AttachKept, DetachKept, RemovalKept DEF Own

-------------------------------------------------------------------------------
(* The invariant. *)

LEMMA BindingInvInit == Init => BindingInv
<1>. SUFFICES ASSUME Init PROVE BindingInv
  OBVIOUS
<1>1. TypeInv
  BY InitTyped
<1>2. ASSUME NEW c \in Consumers
      PROVE  job[c].step = "idle" /\ cfg[c].remote = NoPeer /\ Offer = NoPeer
             /\ c # NoPeer /\ Provider # NoPeer
  BY NodesDistinct DEF Init, NoJob, Offer
<1>. QED BY <1>1, <1>2 DEF BindingInv, ClaimsHeld, Claims, BindingsAccounted, Accounted,
                           PrunesUnregistered, Unregistered

LEMMA BindingInvNext == BindingInv /\ [Next]_vars => BindingInv'
<1>1. BindingInv /\ UNCHANGED vars => BindingInv'
  BY DEF vars, BindingInv, TypeInv, TypeOK, JobKept, ClaimsHeld, Claims, Held,
         BindingsAccounted, Accounted, PrunesUnregistered, Unregistered, Undoes, Offer
<1>2. ASSUME BindingInv, Next PROVE BindingInv'
  <2>1. TypeInv /\ TypeInv'
    BY <1>2, NextTyped DEF BindingInv
  <2>2. ASSUME NEW c \in Consumers
        PROVE  (Claims(c)' => Held(c)') /\ Accounted(c)' /\ Unregistered(c)'
    <3>1. Claims(c) => Held(c)'
      BY <1>2, <2>1, HeldStays DEF BindingInv, ClaimsHeld
    <3>2. CASE Own(c)
      BY <1>2, <3>1, <3>2, OwnKept DEF Kept
    <3>3. CASE ~Own(c)
      <4>1. Untouched(c)
        BY <1>2, <2>1, <3>3, OthersUntouched
      <4>2. Accounted(c) /\ Unregistered(c)
        BY <1>2 DEF BindingInv, BindingsAccounted, PrunesUnregistered
      <4>. QED BY <3>1, <4>1, <4>2 DEF Untouched, Claims, Accounted, Unregistered, Undoes
    <3>. QED BY <3>2, <3>3
  <2>. QED BY <2>1, <2>2 DEF BindingInv, ClaimsHeld, BindingsAccounted, PrunesUnregistered
<1>. QED BY <1>1, <1>2

\* However attaches, detaches, withdrawals, removals, edits and deaths interleave, a
\* consumer that has the folder registered holds the offer, or what took it away is
\* on record: no other attach, undo or late edit ever takes it silently.
THEOREM RegistrationsAreBound == Spec => []RegisteredIsBound
<1>1. BindingInv => RegisteredIsBound
  BY DEF BindingInv, ClaimsHeld, Claims, Held, RegisteredIsBound
<1>. QED BY <1>1, BindingInvInit, BindingInvNext, PTL DEF Spec

\* A binding of a consumer with no registration and no command under way was left by
\* a lost reply, a death, a removal, an edit or an undoing that was not carried out;
\* every other failure gives it back.
THEOREM FailuresAreUndone == Spec => []FailedAttachUndone
<1>1. BindingInv => FailedAttachUndone
  BY DEF BindingInv, BindingsAccounted, Accounted, Undoes, FailedAttachUndone
<1>. QED BY <1>1, BindingInvInit, BindingInvNext, PTL DEF Spec

\* The index of a registered folder is never pruned, whatever interrupts the command.
THEOREM RegisteredIndexes == Spec => RegisteredIndexKept
<1>. DEFINE Keeps == \A c \in Consumers : ~ (index[c] \subseteq index'[c]) => cfg'[c].remote = NoPeer
<1>1. ASSUME BindingInv, Next PROVE Keeps
  <2>. SUFFICES ASSUME NEW c \in Consumers, ~ (index[c] \subseteq index'[c])
                PROVE  cfg'[c].remote = NoPeer
    OBVIOUS
  <2>1. TypeOK /\ c \in Nodes
    BY <1>1, NodesDistinct DEF BindingInv, TypeInv
  <2>2. CASE index' = index
    BY <2>2
  <2>3. ASSUME NEW n \in Nodes, Prune(n) PROVE cfg'[c].remote = NoPeer
    <3>1. n = c
      BY <2>1, <2>3 DEF Prune, TypeOK
    <3>2. Unregistered(c)
      BY <1>1 DEF BindingInv, PrunesUnregistered
    <3>. QED BY <2>3, <3>1, <3>2 DEF Prune, At, Unregistered
  <2>4. ASSUME NEW n \in Nodes, CycleSave(n) PROVE cfg'[c].remote = NoPeer
    BY <2>1, <2>4 DEF CycleSave, TypeOK
  <2>5. ASSUME NEW d \in Consumers, ConsumerStep(d) PROVE index' = index
    BY <2>5 DEF ConsumerStep, AttachNew, AttachAgain, Detach, Starts, BindOffer, ListOffer,
                Register, Validate, Undo, UnbindOffer, Unregister, Connect
  <2>6. ASSUME NEW n \in Nodes, NodeStep(n), ~Prune(n), ~CycleSave(n) PROVE index' = index
    BY <2>6 DEF NodeStep, Remove, Starts, Revoke, Forget, CycleStart, EditOpen, EditInstall, Die
  <2>7. Share \/ Unshare \/ Withdraw => index' = index
    BY DEF Share, Unshare, Starts, Withdraw
  <2>. QED BY <1>1, <2>2, <2>3, <2>4, <2>5, <2>6, <2>7 DEF Next
<1>2. UNCHANGED vars => Keeps
  BY DEF vars
<1>3. BindingInv /\ [Next]_vars => [Keeps]_vars
  BY <1>1, <1>2
<1>. QED BY <1>3, BindingInvInit, BindingInvNext, PTL DEF Spec, RegisteredIndexKept
================================================================================
