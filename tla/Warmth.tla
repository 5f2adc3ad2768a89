------------------------------- MODULE Warmth -------------------------------
(***************************************************************************)
(* What warming the regions of a torrent promises to those who ask for it: *)
(* a region is fetched by one worker at a time, once it is warm it is not  *)
(* fetched again, an attempt that fails leaves it cold for the next one,   *)
(* and when the engine is over no region is being warmed.                  *)
(* Module Warmers implements it with latches, goroutines and contexts.     *)
(***************************************************************************)
CONSTANT Region

VARIABLES
  warming,     \* the regions that are being fetched
  warm,        \* the regions that have been fetched
  over         \* the engine is closed

warmthVars == <<warming, warm, over>>

WarmthInit == warming = {} /\ warm = {} /\ over = FALSE

Begin(r) ==
  /\ ~over
  /\ r \notin warming \cup warm
  /\ warming' = warming \cup {r}
  /\ UNCHANGED <<warm, over>>

Finish(r) ==
  /\ r \in warming
  /\ warming' = warming \ {r}
  /\ warm' = warm \cup {r}
  /\ UNCHANGED over

GiveUp(r) ==
  /\ r \in warming
  /\ warming' = warming \ {r}
  /\ UNCHANGED <<warm, over>>

End ==
  /\ ~over /\ warming = {}
  /\ over' = TRUE
  /\ UNCHANGED <<warming, warm>>

WarmthNext == (\E r \in Region : Begin(r) \/ Finish(r) \/ GiveUp(r)) \/ End

WarmthSpec == WarmthInit /\ [][WarmthNext]_warmthVars
=============================================================================
