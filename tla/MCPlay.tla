-------------------------------- MODULE MCPlay ------------------------------
(***************************************************************************)
(* Model checking /play: a request that waits, or viewers that read, and   *)
(* once Close is called one viewer at most.                                *)
(***************************************************************************)
EXTENDS Play, TLC

Symmetric == Permutations(Hash) \cup Permutations(Caller) \cup Permutations(Viewer)

Active == {v \in Viewer : view[v].pc # "idle"}

WaitOrRead ==
  /\ (\A c \in Caller : In(c, "idle")) \/ Active = {}
  /\ closer = "open" \/ Cardinality(Active) <= 1
=============================================================================
