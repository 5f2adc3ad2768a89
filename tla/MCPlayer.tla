------------------------------ MODULE MCPlayer ------------------------------
(***************************************************************************)
(* Model checking the player windows.  Operations and windows differ by    *)
(* name only: a begins first, and w1 opens first.  Once HUD and dialog     *)
(* have met, TLC looks at the behaviours without a window.                 *)
(***************************************************************************)
EXTENDS Player, TLC

CONSTANTS a, b, w1, w2

Ordered ==
  /\ opening[b].at # "new" => opening[a].at # "new"
  /\ win[w2].life # "none" => win[w1].life # "none"

MetAlone == Ordered /\ (shared => Unused = Windows)
=============================================================================
