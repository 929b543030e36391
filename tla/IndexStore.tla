------------------------------ MODULE IndexStore ------------------------------
(***************************************************************************)
(* What the folder lock promises of one installation's index: however the  *)
(* processes that work on a folder interleave, wait, fail or die, the      *)
(* index changes as if each request were carried out whole, at one moment, *)
(* on the index as it then is, or not at all.                              *)
(***************************************************************************)
EXTENDS FolderIndex

CONSTANTS Here,      \* the installation
          Jobs,      \* the processes that may work on the folder at once
          NoRequest  \* a job that wants nothing of the index

VARIABLES index,     \* index[x]: the entry of path x
          request    \* request[w]: what job w wants, or NoRequest

storeVars == <<index, request>>

Kinds == {"write", "delete", "scan", "ack", "ignore"}

Request == [kind : Kinds, path : Paths, file : File \cup {NoFile}, version : Version]

StoreInit ==
  /\ index   = [x \in Paths |-> Absent]
  /\ request = [w \in Jobs |-> NoRequest]

\* Whether a scan of some files, under some ignore rules, turns old into new.
Rescanned(old, new) ==
  \A x \in Paths : \/ new[x] = old[x]
                   \/ new[x] = ScanEntry(Here, old[x], FileOf(new[x]))

\* The index that request r makes of old.
Effect(r, old, new) ==
  CASE r.kind = "write"  -> new = [old EXCEPT ![r.path] = LiveEntry(r.version, r.file)]
    [] r.kind = "delete" -> new = [old EXCEPT ![r.path] = Tombstone(r.version)]
    [] r.kind = "scan"   -> Rescanned(old, new)
    [] r.kind = "ack"    -> new = Prune(old, r.version)
    [] r.kind = "ignore" -> new = old

Ask(w) ==
  /\ request[w] = NoRequest
  /\ request'[w] \in Request
  /\ request' = [request EXCEPT ![w] = request'[w]]
  /\ UNCHANGED index

Serve(w) ==
  /\ request[w] # NoRequest
  /\ Effect(request[w], index, index')
  /\ request' = [request EXCEPT ![w] = NoRequest]

Withdraw(w) ==
  /\ request' = [request EXCEPT ![w] = NoRequest]
  /\ UNCHANGED index

StoreNext == \E w \in Jobs : Ask(w) \/ Serve(w) \/ Withdraw(w)

StoreSpec == StoreInit /\ [][StoreNext]_storeVars
==============================================================================
