------------------------------- MODULE MCDaemon -------------------------------
(* Instances of Daemon for TLC. *)
EXTENDS Daemon, TLC

CONSTANTS f, g, p, q

MCFolders == <<f, g>>
OnePeerEach == f :> p @@ g :> q
SamePeer    == f :> p @@ g :> p
==============================================================================
