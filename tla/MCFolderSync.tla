----------------------------- MODULE MCFolderSync -----------------------------
(* Instances of FolderSync for TLC. *)
EXTENDS FolderSyncHistory, TLC

CONSTANTS i, r, daemon, served

MCPeers == {i, r}

\* One process's cycles run one after the other.
OneProcess == daemon :> 1

\* The daemon's cycle, and one its peer asked for in a process of its own.
TwoProcesses == daemon :> 1 @@ served :> 2

ContentSymmetry == Permutations(Contents)

\* Two processes with a cycle each differ in name only.
BothSymmetry == Permutations(Contents) \cup Permutations(Cycles)
==============================================================================
