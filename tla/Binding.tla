------------------------------- MODULE Binding ------------------------------
(***************************************************************************)
(* What the registry promises its callers about client generations: a      *)
(* tracked torrent is bound to the current client, except for the torrents *)
(* a rebuild in progress has still to visit; nothing becomes tracked while *)
(* a rebuild runs or after shutdown; a rebuild ends with no torrent left   *)
(* bound to the client it closed.                                          *)
(***************************************************************************)
CONSTANT Hash

VARIABLES
  tracked,   \* the infohashes the registry serves
  stale,     \* those still bound to a closed client
  mode       \* "serving", "swapping" clients, or "stopped"

bvars == <<tracked, stale, mode>>

BindingTypeOK ==
  /\ tracked \subseteq Hash
  /\ stale \subseteq tracked
  /\ mode \in {"serving", "swapping", "stopped"}

BInit == tracked = {} /\ stale = {} /\ mode = "serving"

Track(ih) ==
  /\ mode = "serving" /\ ih \notin tracked
  /\ tracked' = tracked \cup {ih}
  /\ UNCHANGED <<stale, mode>>

Forget(gone) ==
  /\ gone # {}
  /\ tracked' = tracked \ gone
  /\ stale' = stale \ gone
  /\ UNCHANGED mode

BeginSwap ==
  /\ mode = "serving"
  /\ stale' = tracked
  /\ mode' = "swapping"
  /\ UNCHANGED tracked

Rebind(ih) ==
  /\ mode = "swapping" /\ ih \in stale
  /\ stale' = stale \ {ih}
  /\ UNCHANGED <<tracked, mode>>

EndSwap ==
  /\ mode = "swapping" /\ stale = {}
  /\ mode' = "serving"
  /\ UNCHANGED <<tracked, stale>>

Stop ==
  /\ mode = "serving"
  /\ mode' = "stopped"
  /\ UNCHANGED <<tracked, stale>>

BNext ==
  \/ \E ih \in Hash : Track(ih) \/ Rebind(ih)
  \/ \E gone \in SUBSET tracked : Forget(gone)
  \/ BeginSwap \/ EndSwap \/ Stop

BSpec == BInit /\ [][BNext]_bvars
=============================================================================
