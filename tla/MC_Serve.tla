------------------------------ MODULE MC_Serve ------------------------------
(***************************************************************************)
(* An instance of DevServer: every tab shows a file that is watched.       *)
(***************************************************************************)
EXTENDS DevServer

Shown == [t \in Tab |-> CHOOSE f \in File : f \notin Ignored]
=============================================================================
