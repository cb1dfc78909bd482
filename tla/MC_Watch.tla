------------------------------ MODULE MC_Watch ------------------------------
(***************************************************************************)
(* Instances of FileWatcher.                                               *)
(***************************************************************************)
EXTENDS FileWatcher
=============================================================================
