------------------------------ MODULE MCPlugin ------------------------------
(***************************************************************************)
(* Model checking the launcher.  The processes of the new version differ   *)
(* by name only: d1 starts first, or they are exchanged.  With a third     *)
(* process TLC looks at the behaviours in which IINA runs, none crashes,   *)
(* no cache is left over and the sweep does not run; what the run checks   *)
(* of the safety of the launcher is proved without that bound.             *)
(***************************************************************************)
EXTENDS Plugin, TLC, FiniteSets

CONSTANTS d1, d2

Started == {p \in Procs : pc[p] # "none"}

Calm ==
  /\ iina /\ sweep = "idle" /\ ~kept
  /\ \A p \in Procs : pc[p] # "dead" /\ (p \in cache => pc[p] # "exited")

TwoOrCalm ==
  /\ pc[d2] # "none" => pc[d1] # "none"
  /\ Cardinality(Started) <= 2 \/ Calm

Interchangeable == Permutations(Procs \ Legacy)
=============================================================================
