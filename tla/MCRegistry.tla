----------------------------- MODULE MCRegistry -----------------------------
(***************************************************************************)
(* Model checking the registry: symmetry, and the constraints that let     *)
(* some runs go deeper where they look.                                    *)
(***************************************************************************)
EXTENDS Registry, TLC

Symmetric == Permutations(Hash) \cup Permutations(Caller) \cup Permutations(Viewer)

(* Either one torrent with all the actors and the bounds of the cfg, or two *)
(* torrents, and then one caller at a time, each torrent added once, and up *)
(* to MaxWaiters waiters, until Close is called.                            *)
MaxWaiters == 2

Untouched(ih) == born[ih] = 0 /\ made[ih] = 0

OneOrPair ==
  \/ Cardinality({ih \in Hash : ~Untouched(ih)}) <= 1
  \/ /\ Cardinality(waiters) <= MaxWaiters /\ closer = "open"
     /\ Cardinality({c \in Caller : req[c].pc # "idle"}) <= 1
     /\ \A ih \in Hash : made[ih] + Cardinality(Registering(ih)) <= 1

=============================================================================
