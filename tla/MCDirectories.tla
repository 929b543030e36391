----------------------------- MODULE MCDirectories -----------------------------
(* Instances of Directories for TLC. *)
EXTENDS Directories, TLC

CONSTANTS i, r, d, e

\* e is in d.
MCAbove == d :> {} @@ e :> {d}
==============================================================================
