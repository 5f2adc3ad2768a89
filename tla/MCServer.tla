------------------------------ MODULE MCServer ------------------------------
EXTENDS Server

CONSTANTS d1, d2, r1, r2

(* Processes are named in the order they start.  One alone meets two        *)
(* requests at a time, two meet one.                                        *)
OneOrPair ==
  /\ pc[d1] = "none" => pc[d2] = "none"
  /\ pc[d2] # "none" => at[r2] = "free"
=============================================================================
