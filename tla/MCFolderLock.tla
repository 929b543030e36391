----------------------------- MODULE MCFolderLock -----------------------------
(* Instances of FolderLock for TLC. *)
EXTENDS FolderLock, TLC

CONSTANTS i, r, writer, deleter, lister, acker, editor, committer

MCPeers == {i, r}

\* One job of each kind.
MCWork == writer :> "write" @@ deleter :> "delete" @@ lister :> "scan"
            @@ acker :> "ack" @@ editor :> "ignore"

\* A scan as the cycle and the index commit command do it, beside others.
WorkBesideCommit == writer :> "write" @@ committer :> "scan"

\* Such a scan beside an ignore edit.
WorkBesideEdit == editor :> "ignore" @@ committer :> "scan"
==============================================================================
