------------------------------ MODULE Registry ------------------------------
(***************************************************************************)
(* The torrent registry of the daemon (torrentd/engine.go): the map from   *)
(* infohash to managedTorrent, the torrent client it is bound to, and      *)
(* every goroutine that changes either: HTTP handlers (Add, Remove, Pause, *)
(* Resume, Stream), the metadata waiters, the idle collector, the network  *)
(* watchdog that rebuilds the client, and Close.                           *)
(*                                                                         *)
(* A critical section of e.mu or e.workerMu is one step.  clientMu is held *)
(* across steps and is read off the program counters (WriteLocked and      *)
(* ReadLocked), so that everything that may happen while it is held, does. *)
(***************************************************************************)
EXTENDS Naturals, FiniteSets

CONSTANTS
  Hash,        \* infohashes
  Private,     \* the infohashes whose metadata carries the private bit
  Caller,      \* goroutines serving Add and Remove requests
  Viewer,      \* goroutines serving Stream requests
  MaxHandle,   \* bound: torrent handles the clients create per infohash
  MaxTorrent,  \* bound: managedTorrents registered per infohash
  NoHash       \* the infohash of a caller that is serving nothing

ASSUME HashAssumption   == NoHash \notin Hash /\ Private \subseteq Hash
ASSUME CallerAssumption == IsFiniteSet(Caller)
ASSUME BoundsAssumption == MaxHandle \in Nat /\ MaxTorrent \in Nat

VARIABLES
  swarm,     \* the handle the current client has for an infohash, 0 if none
  born,      \* the handles made so far: handle numbers never come back
  epoch,     \* born when the current client was built: later handles are its
  info,      \* the handles whose metadata is known
  trackers,  \* the handles announced to the public trackers
  torrents,  \* e.torrents: the managedTorrent tracked, 0 if none
  made,      \* the managedTorrents made so far
  mt,        \* the managedTorrents
  req,       \* what each caller is doing
  view,      \* what each viewer is doing
  waiters,   \* completeMetadata goroutines
  gcAt, evicted,      \* gcLoop, and what its scan has still to drop
  rebAt, snaps, cur,  \* recoveryLoop in recreateClient
  closer              \* Close

client   == <<swarm, born, epoch, info, trackers>>
registry == <<torrents, made, mt>>
collect  == <<gcAt, evicted>>
rebuild  == <<rebAt, snaps, cur>>
vars == <<client, registry, req, view, waiters, collect, rebuild, closer>>

Handle   == 1..MaxHandle
Torrent  == 1..MaxTorrent
Managed  == [t: 0..MaxHandle, paused: BOOLEAN, warm: BOOLEAN,
             idle: BOOLEAN, readers: SUBSET Viewer]
Request  == [pc: {"idle", "register", "drop"},
             ih: Hash \cup {NoHash}, m: 0..MaxTorrent, t: 0..MaxHandle]
Viewing  == [pc: {"idle", "open", "reading"}, ih: Hash \cup {NoHash}, m: 0..MaxTorrent]
Waiter   == [pc: {"spawned", "waiting", "attach", "drop"},
             ih: Hash, m: Torrent, t: 0..MaxHandle]
Eviction == [ih: Hash, m: Torrent, t: 0..MaxHandle]
Snapshot == [ih: Hash, m: Torrent, hasInfo: BOOLEAN]
Commit   == [ih: Hash \cup {NoHash}, m: 0..MaxTorrent, t: 0..MaxHandle]

Idle  == [pc |-> "idle", ih |-> NoHash, m |-> 0, t |-> 0]
Away  == [pc |-> "idle", ih |-> NoHash, m |-> 0]
NoCur == [ih |-> NoHash, m |-> 0, t |-> 0]

TypeOK ==
  /\ swarm \in [Hash -> 0..MaxHandle]
  /\ born  \in [Hash -> 0..MaxHandle]
  /\ epoch \in [Hash -> 0..MaxHandle]
  /\ info     \in [Hash -> SUBSET Handle]
  /\ trackers \in [Hash -> SUBSET Handle]
  /\ torrents \in [Hash -> 0..MaxTorrent]
  /\ made     \in [Hash -> 0..MaxTorrent]
  /\ mt \in [Hash -> [Torrent -> Managed]]
  /\ req \in [Caller -> Request]
  /\ view \in [Viewer -> Viewing]
  /\ waiters \subseteq Waiter
  /\ gcAt \in {"ticking", "dropping", "exited"}
  /\ evicted \subseteq Eviction
  /\ rebAt \in {"ticking", "snapped", "readd", "commit", "exited"}
  /\ snaps \subseteq Snapshot
  /\ cur \in Commit
  /\ closer \in {"open", "closing", "draining", "closed"}

-----------------------------------------------------------------------------
(* clientMu: a rebuild holds the write side, Add and a metadata waiter that *)
(* is attaching or dropping hold the read side.                             *)
AddersLock  == \E c \in Caller : req[c].pc = "register"       \* mutant: waiters take no lock
WaitersLock == \E w \in waiters : w.pc \in {"attach", "drop"} \* mutant: Add takes no lock
WriteLocked == rebAt \in {"snapped", "readd", "commit"}
ReadLocked  == \/ \E c \in Caller : req[c].pc = "register"
               \/ \E w \in waiters : w.pc \in {"attach", "drop"}

Closed == closer \in {"draining", "closed"}    \* e.closed, and e.done closed

Tracked(ih)   == torrents[ih] # 0
TrackedMt(ih) == mt[ih][torrents[ih]]
SameTorrent(ih, m, t) == torrents[ih] = m      \* mutant: whatever its handle is by now
IsCurrent(ih, m, t) == torrents[ih] = m /\ mt[ih][m].t = t

(* Torrent.Drop closes one handle: the session of that handle goes, the one *)
(* of a later handle of the same infohash stays.                            *)
Dropped(ih, t) == [swarm EXCEPT ![ih] = IF @ = t THEN 0 ELSE @]

Updated(ih, m, r) == [mt EXCEPT ![ih][m] = r]
Uncancelled(ih, m) == mt                      \* mutant: the warmers run on
Cancelled(ih, m)  == Updated(ih, m, [mt[ih][m] EXCEPT !.warm = FALSE])

(* resumeLocked, called by Resume and by a re-open, which rebinds to t.  A  *)
(* context made after Close is born cancelled.                              *)
ResumeLocked(r, t) == [r EXCEPT !.t = t, !.idle = FALSE, !.paused = FALSE,
                                !.warm = IF r.paused THEN ~Closed ELSE @]

Spawned(ih, m) == [pc |-> "spawned", ih |-> ih, m |-> m, t |-> 0]
Fresh(t) == [t |-> t, paused |-> FALSE, warm |-> ~Closed, idle |-> FALSE,
             readers |-> {}]

Init ==
  /\ swarm = [ih \in Hash |-> 0] /\ born = swarm /\ epoch = swarm
  /\ info = [ih \in Hash |-> {}] /\ trackers = info
  /\ torrents = [ih \in Hash |-> 0] /\ made = torrents
  /\ mt = [ih \in Hash |-> [m \in Torrent |->
            [t |-> 0, paused |-> FALSE, warm |-> FALSE, idle |-> FALSE,
             readers |-> {}]]]
  /\ req = [c \in Caller |-> Idle]
  /\ view = [v \in Viewer |-> Away]
  /\ waiters = {}
  /\ gcAt = "ticking" /\ evicted = {}
  /\ rebAt = "ticking" /\ snaps = {} /\ cur = NoCur
  /\ closer = "open"

-----------------------------------------------------------------------------
(* Add.  The source has been read; the client generation is pinned and the *)
(* client either has the infohash or starts a session for it.  A .torrent   *)
(* file brings the metadata.  A failed bind changes nothing.                *)
Registering(ih) == {c \in Caller : req[c].pc = "register" /\ req[c].ih = ih}

AddBind(c, ih, withInfo) ==
  LET fresh == swarm[ih] = 0
      t == IF fresh THEN born[ih] + 1 ELSE swarm[ih]
  IN /\ req[c].pc = "idle"
     /\ ~WriteLocked
     /\ ~Closed
     /\ fresh => born[ih] < MaxHandle
     /\ made[ih] + Cardinality(Registering(ih)) < MaxTorrent
     /\ swarm' = [swarm EXCEPT ![ih] = t]
     /\ born' = [born EXCEPT ![ih] = IF fresh THEN t ELSE @]
     /\ info' = [info EXCEPT ![ih] = IF withInfo THEN @ \cup {t} ELSE @]
     /\ req' = [req EXCEPT ![c] = [pc |-> "register", ih |-> ih, m |-> 0, t |-> t]]
     /\ UNCHANGED <<epoch, trackers, registry, view, waiters, collect, rebuild, closer>>

(* Under e.mu: adopt the handle for a tracked torrent and lift its pause... *)
AddReopen(c) ==
  LET ih == req[c].ih
      m  == torrents[ih]
      t  == req[c].t
  IN /\ req[c].pc = "register" /\ Tracked(ih)
     /\ mt' = Updated(ih, m, ResumeLocked(mt[ih][m], t))
     /\ waiters' = IF mt[ih][m].t # t THEN waiters \cup {Spawned(ih, m)} ELSE waiters
     /\ req' = [req EXCEPT ![c] = Idle]
     /\ UNCHANGED <<client, torrents, made, view, collect, rebuild, closer>>

(* ... or track a new managedTorrent.  clientMu is released at the end.     *)
AddNew(c) ==
  LET ih == req[c].ih
      m  == made[ih] + 1
  IN /\ req[c].pc = "register" /\ ~Tracked(ih)
     /\ made' = [made EXCEPT ![ih] = m]
     /\ torrents' = [torrents EXCEPT ![ih] = m]
     /\ mt' = Updated(ih, m, Fresh(req[c].t))
     /\ waiters' = waiters \cup {Spawned(ih, m)}
     /\ req' = [req EXCEPT ![c] = Idle]
     /\ UNCHANGED <<client, view, collect, rebuild, closer>>

AddRegister(c) == AddReopen(c) \/ AddNew(c)

(* Remove: forget the torrent under e.mu, then drop its handle outside it.  *)
RemoveUnknown(c, ih) ==  \* mutant: the lookup is not checked
  /\ req[c].pc = "idle"
  /\ torrents' = [torrents EXCEPT ![ih] = 0]
  /\ req' = [req EXCEPT ![c] = [pc |-> "drop", ih |-> ih, m |-> torrents[ih], t |-> 0]]
  /\ UNCHANGED <<client, made, mt, view, waiters, collect, rebuild, closer>>

RemoveForget(c, ih) ==
  /\ req[c].pc = "idle" /\ Tracked(ih)
  /\ torrents' = [torrents EXCEPT ![ih] = 0]
  /\ req' = [req EXCEPT ![c] = [pc |-> "drop", ih |-> ih, m |-> torrents[ih], t |-> 0]]
  /\ UNCHANGED <<client, made, mt, view, waiters, collect, rebuild, closer>>

RemoveDrop(c) ==
  LET ih == req[c].ih
      m  == req[c].m
  IN /\ req[c].pc = "drop"
     /\ mt' = Cancelled(ih, m)
     /\ swarm' = Dropped(ih, mt[ih][m].t)
     /\ req' = [req EXCEPT ![c] = Idle]
     /\ UNCHANGED <<born, epoch, info, trackers, torrents, made, view, waiters,
                    collect, rebuild, closer>>

Pause(ih) ==
  /\ Tracked(ih)
  /\ mt' = Updated(ih, torrents[ih], [TrackedMt(ih) EXCEPT !.paused = TRUE,
                                          !.warm = FALSE, !.idle = FALSE])
  /\ UNCHANGED <<client, torrents, made, req, view, waiters, collect, rebuild, closer>>

Resume(ih) ==
  /\ Tracked(ih)
  /\ mt' = Updated(ih, torrents[ih], ResumeLocked(TrackedMt(ih), TrackedMt(ih).t))
  /\ UNCHANGED <<client, torrents, made, req, view, waiters, collect, rebuild, closer>>

Touch(ih) ==
  /\ Tracked(ih)
  /\ mt' = Updated(ih, torrents[ih], [TrackedMt(ih) EXCEPT !.idle = FALSE])
  /\ UNCHANGED <<client, torrents, made, req, view, waiters, collect, rebuild, closer>>

(* torrentIdleTimeout passes without an interaction.                        *)
GoIdle(ih) ==
  /\ Tracked(ih)
  /\ mt' = Updated(ih, torrents[ih], [TrackedMt(ih) EXCEPT !.idle = TRUE])
  /\ UNCHANGED <<client, torrents, made, req, view, waiters, collect, rebuild, closer>>

-----------------------------------------------------------------------------
(* Stream: look the torrent and its file list up, register a reader in a    *)
(* later critical section, unregister it when the response ends.            *)
StreamOpen(v, ih) ==
  /\ view[v].pc = "idle" /\ Tracked(ih)
  /\ TrackedMt(ih).t \in info[ih]
  /\ view' = [view EXCEPT ![v] = [pc |-> "open", ih |-> ih, m |-> torrents[ih]]]
  /\ UNCHANGED <<client, registry, req, waiters, collect, rebuild, closer>>

Viewed(v) == mt[view[v].ih][view[v].m]

StreamRegister(v) ==
  /\ view[v].pc = "open"
  /\ mt' = Updated(view[v].ih, view[v].m,
                   [Viewed(v) EXCEPT !.readers = @ \cup {v}, !.idle = FALSE])
  /\ view' = [view EXCEPT ![v].pc = "reading"]
  /\ UNCHANGED <<client, torrents, made, req, waiters, collect, rebuild, closer>>

StreamEndsAll(v) ==      \* mutant: a flag instead of a count of readers
  /\ view[v].pc = "reading"
  /\ mt' = Updated(view[v].ih, view[v].m, [Viewed(v) EXCEPT !.readers = {}, !.idle = FALSE])
  /\ view' = [view EXCEPT ![v] = Away]
  /\ UNCHANGED <<client, torrents, made, req, waiters, collect, rebuild, closer>>

StreamEnd(v) ==
  /\ view[v].pc = "reading"
  /\ mt' = Updated(view[v].ih, view[v].m,
                   [Viewed(v) EXCEPT !.readers = @ \ {v}, !.idle = FALSE])
  /\ view' = [view EXCEPT ![v] = Away]
  /\ UNCHANGED <<client, torrents, made, req, waiters, collect, rebuild, closer>>

-----------------------------------------------------------------------------
(* completeMetadata.  It loads the handle when it first runs, which may be  *)
(* after another rebinding.                                                 *)
MetadataArrives(ih) ==
  /\ swarm[ih] # 0 /\ swarm[ih] \notin info[ih]
  /\ info' = [info EXCEPT ![ih] = @ \cup {swarm[ih]}]
  /\ UNCHANGED <<swarm, born, epoch, trackers, registry, req, view, waiters, collect,
                 rebuild, closer>>

Others(w) == waiters \ {w}

WaiterStart(w) ==
  /\ w.pc = "spawned"
  /\ waiters' = Others(w) \cup {[w EXCEPT !.pc = "waiting", !.t = mt[w.ih][w.m].t]}
  /\ UNCHANGED <<client, registry, req, view, collect, rebuild, closer>>

WaiterGotInfo(w) ==
  /\ w.pc = "waiting" /\ w.t \in info[w.ih]
  /\ ~WriteLocked
  /\ waiters' = IF IsCurrent(w.ih, w.m, w.t)
                THEN Others(w) \cup {[w EXCEPT !.pc = "attach"]} ELSE Others(w)
  /\ UNCHANGED <<client, registry, req, view, collect, rebuild, closer>>

WaiterAttach(w) ==
  /\ w.pc = "attach"
  /\ trackers' = [trackers EXCEPT ![w.ih] = IF w.ih \in Private THEN @ ELSE @ \cup {w.t}]
  /\ waiters' = Others(w)
  /\ UNCHANGED <<swarm, born, epoch, info, registry, req, view, collect, rebuild, closer>>

(* The deadline, which may win the select even if the metadata is there:    *)
(* dropIfCurrent forgets the torrent if the waiter is still the one in      *)
(* charge of it, and then drops the handle.                                 *)
WaiterTimeout(w) ==
  /\ w.pc = "waiting"
  /\ ~WriteLocked
  /\ IF IsCurrent(w.ih, w.m, w.t)
     THEN /\ torrents' = [torrents EXCEPT ![w.ih] = 0]
          /\ waiters' = Others(w) \cup {[w EXCEPT !.pc = "drop"]}
     ELSE /\ waiters' = Others(w)
          /\ UNCHANGED torrents
  /\ UNCHANGED <<client, made, mt, req, view, collect, rebuild, closer>>

WaiterDrop(w) ==
  /\ w.pc = "drop"
  /\ mt' = Cancelled(w.ih, w.m)
  /\ swarm' = Dropped(w.ih, w.t)
  /\ waiters' = Others(w)
  /\ UNCHANGED <<born, epoch, info, trackers, torrents, made, req, view, collect,
                 rebuild, closer>>

WaiterStays(w) == FALSE  \* mutant: the select ignores e.done
WaiterQuit(w) ==
  /\ w.pc = "waiting" /\ Closed
  /\ waiters' = Others(w)
  /\ UNCHANGED <<client, registry, req, view, collect, rebuild, closer>>

-----------------------------------------------------------------------------
(* collectGarbage: forget what has no reader and no recent interaction,     *)
(* then drop the handles outside e.mu.                                      *)
Evictable == {ih \in Hash : Tracked(ih) /\ TrackedMt(ih).readers = {} /\ TrackedMt(ih).idle}

GCScan ==
  /\ gcAt = "ticking" /\ Evictable # {}
  /\ evicted' = {[ih |-> ih, m |-> torrents[ih], t |-> TrackedMt(ih).t] : ih \in Evictable}
  /\ torrents' = [ih \in Hash |-> IF ih \in Evictable THEN 0 ELSE torrents[ih]]
  /\ gcAt' = "dropping"
  /\ UNCHANGED <<client, made, mt, req, view, waiters, rebuild, closer>>

GCDrop(d) ==
  /\ gcAt = "dropping"
  /\ mt' = Cancelled(d.ih, d.m)
  /\ swarm' = Dropped(d.ih, d.t)
  /\ evicted' = evicted \ {d}
  /\ gcAt' = IF evicted = {d} THEN "ticking" ELSE "dropping"
  /\ UNCHANGED <<born, epoch, info, trackers, torrents, made, req, view, waiters,
                 rebuild, closer>>

GCExit ==
  /\ gcAt = "ticking" /\ Closed
  /\ gcAt' = "exited"
  /\ UNCHANGED <<client, registry, req, view, waiters, evicted, rebuild, closer>>

-----------------------------------------------------------------------------
(* recreateClient: snapshot what is tracked, build the replacement, close   *)
(* the old client, and add the torrents again one by one.                   *)
RebuildSnapshot ==
  /\ rebAt = "ticking"
  /\ ~ReadLocked
  /\ ~Closed
  /\ \A ih \in Hash : Tracked(ih) => born[ih] < MaxHandle
  /\ snaps' = {[ih |-> ih, m |-> torrents[ih], hasInfo |-> TrackedMt(ih).t \in info[ih]] :
                 ih \in {h \in Hash : Tracked(h)}}
  /\ rebAt' = "snapped"
  /\ UNCHANGED <<client, registry, req, view, waiters, collect, cur, closer>>

RebuildKeepOld ==        \* the replacement could not be built
  /\ rebAt = "snapped"
  /\ rebAt' = "ticking" /\ snaps' = {}
  /\ UNCHANGED <<client, registry, req, view, waiters, collect, cur, closer>>

RebuildSwap ==
  /\ rebAt = "snapped"
  /\ swarm' = [ih \in Hash |-> 0]
  /\ epoch' = born
  /\ rebAt' = "readd"
  /\ UNCHANGED <<born, info, trackers, registry, req, view, waiters, collect, snaps, cur, closer>>

(* readdToClient gives a handle; metadata the old one had may be lost when  *)
(* the fallback cannot supply it again.                                     *)
RebuildReadd(s, keepsInfo) ==
  LET t == born[s.ih] + 1
  IN /\ rebAt = "readd"
     /\ keepsInfo => s.hasInfo
     /\ swarm' = [swarm EXCEPT ![s.ih] = t]
     /\ born' = [born EXCEPT ![s.ih] = t]
     /\ info' = [info EXCEPT ![s.ih] = IF keepsInfo THEN @ \cup {t} ELSE @]
     /\ snaps' = snaps \ {s}
     /\ cur' = [ih |-> s.ih, m |-> s.m, t |-> t]
     /\ rebAt' = "commit"
     /\ UNCHANGED <<epoch, trackers, registry, req, view, waiters, collect, closer>>

(* readdToClient cannot give a handle: stop tracking the dead one.          *)
RebuildReaddSkips(s) ==  \* mutant: the torrent stays tracked
  /\ rebAt = "readd"
  /\ snaps' = snaps \ {s}
  /\ UNCHANGED <<client, registry, req, view, waiters, collect, rebAt, cur, closer>>

RebuildReaddFails(s) ==
  /\ rebAt = "readd"
  /\ snaps' = snaps \ {s}
  /\ IF torrents[s.ih] = s.m
     THEN /\ torrents' = [torrents EXCEPT ![s.ih] = 0]
          /\ mt' = Cancelled(s.ih, s.m)
     ELSE UNCHANGED <<torrents, mt>>
  /\ UNCHANGED <<client, made, req, view, waiters, collect, rebAt, cur, closer>>

RebuildNoRearm ==        \* mutant: no waiter for the new handle
  /\ rebAt = "commit"
  /\ IF torrents[cur.ih] = cur.m
     THEN /\ mt' = Updated(cur.ih, cur.m, [mt[cur.ih][cur.m] EXCEPT !.t = cur.t])
          /\ UNCHANGED swarm
     ELSE swarm' = Dropped(cur.ih, cur.t) /\ UNCHANGED mt
  /\ cur' = NoCur /\ rebAt' = "readd"
  /\ UNCHANGED <<born, epoch, info, trackers, torrents, made, req, view, waiters,
                 collect, snaps, closer>>

RebuildCommit ==
  /\ rebAt = "commit"
  /\ IF torrents[cur.ih] = cur.m
     THEN /\ mt' = Updated(cur.ih, cur.m, [mt[cur.ih][cur.m] EXCEPT !.t = cur.t])
          /\ waiters' = waiters \cup {Spawned(cur.ih, cur.m)}
          /\ UNCHANGED swarm
     ELSE /\ swarm' = Dropped(cur.ih, cur.t)
          /\ UNCHANGED <<mt, waiters>>
  /\ cur' = NoCur
  /\ rebAt' = "readd"
  /\ UNCHANGED <<born, epoch, info, trackers, torrents, made, req, view, collect, snaps, closer>>

RebuildDone ==
  /\ rebAt = "readd" /\ snaps = {}
  /\ rebAt' = "ticking"
  /\ UNCHANGED <<client, registry, req, view, waiters, collect, snaps, cur, closer>>

RecoveryExit ==
  /\ rebAt = "ticking" /\ Closed
  /\ rebAt' = "exited"
  /\ UNCHANGED <<client, registry, req, view, waiters, collect, snaps, cur, closer>>

-----------------------------------------------------------------------------
(* Close: wait for clientMu, set e.closed, close e.done and cancel e.ctx;   *)
(* then wait for every worker; then close the client.                       *)
CloseCall ==
  /\ closer = "open"
  /\ closer' = "closing"
  /\ UNCHANGED <<client, registry, req, view, waiters, collect, rebuild>>

CloseSignal ==
  /\ closer = "closing"
  /\ ~WriteLocked /\ ~ReadLocked
  /\ closer' = "draining"
  /\ mt' = [ih \in Hash |-> [m \in Torrent |-> [mt[ih][m] EXCEPT !.warm = FALSE]]]
  /\ UNCHANGED <<client, torrents, made, req, view, waiters, collect, rebuild>>

CloseEarly ==            \* mutant: the waiters are not in e.wg
  /\ closer = "draining"
  /\ gcAt = "exited" /\ rebAt = "exited"
  /\ closer' = "closed"
  /\ swarm' = [ih \in Hash |-> 0]
  /\ UNCHANGED <<born, epoch, info, trackers, registry, req, view, waiters, collect, rebuild>>

CloseClient ==
  /\ closer = "draining"
  /\ waiters = {} /\ gcAt = "exited" /\ rebAt = "exited"
  /\ closer' = "closed"
  /\ swarm' = [ih \in Hash |-> 0]
  /\ UNCHANGED <<born, epoch, info, trackers, registry, req, view, waiters, collect, rebuild>>

Exited ==               \* the process ends with Close
  closer = "closed" /\ UNCHANGED vars

-----------------------------------------------------------------------------
CallerStep(c) ==
  \/ \E ih \in Hash, withInfo \in BOOLEAN : AddBind(c, ih, withInfo)
  \/ AddRegister(c)
  \/ \E ih \in Hash : RemoveForget(c, ih)
  \/ RemoveDrop(c)

ViewerStep(v) ==
  \/ \E ih \in Hash : StreamOpen(v, ih)
  \/ StreamRegister(v)
  \/ StreamEnd(v)

TorrentStep(ih) ==
  Pause(ih) \/ Resume(ih) \/ Touch(ih) \/ GoIdle(ih) \/ MetadataArrives(ih)

WaiterStep(w) ==
  \/ WaiterStart(w) \/ WaiterGotInfo(w) \/ WaiterAttach(w)
  \/ WaiterTimeout(w) \/ WaiterDrop(w) \/ WaiterQuit(w)

GCStep == GCScan \/ (\E d \in evicted : GCDrop(d)) \/ GCExit

RebuildStep ==
  \/ RebuildSnapshot \/ RebuildKeepOld \/ RebuildSwap
  \/ \E s \in snaps, keepsInfo \in BOOLEAN : RebuildReadd(s, keepsInfo)
  \/ \E s \in snaps : RebuildReaddFails(s)
  \/ RebuildCommit \/ RebuildDone \/ RecoveryExit

CloseStep == CloseCall \/ CloseSignal \/ CloseClient

Next ==
  \/ \E c \in Caller : CallerStep(c)
  \/ \E v \in Viewer : ViewerStep(v)
  \/ \E ih \in Hash : TorrentStep(ih)
  \/ \E w \in waiters : WaiterStep(w)
  \/ GCStep
  \/ RebuildStep
  \/ CloseStep
  \/ Exited

Spec == Init /\ [][Next]_vars

-----------------------------------------------------------------------------
(* Fairness.  A runnable goroutine runs: weak fairness of every step that   *)
(* needs no lock held across steps.  A goroutine waiting for clientMu gets  *)
(* it if it keeps becoming free (sync.RWMutex starves neither side), hence  *)
(* strong fairness there.  Requests, metadata, timeouts, idleness, watchdog *)
(* verdicts and the call of Close are the environment's: no fairness.       *)
At(ih, m, t, pc) == [pc |-> pc, ih |-> ih, m |-> m, t |-> t]

WaiterRuns(w)  == w \in waiters /\ (WaiterStart(w) \/ WaiterAttach(w) \/ WaiterDrop(w) \/ WaiterQuit(w))
WaiterLocks(w) == w \in waiters /\ WaiterGotInfo(w)

Fairness ==
  /\ \A c \in Caller : WF_vars(AddRegister(c)) /\ WF_vars(RemoveDrop(c))
  /\ \A ih \in Hash, m \in Torrent, t \in 0..MaxHandle :
       /\ \A pc \in {"spawned", "waiting", "attach", "drop"} :
            WF_vars(WaiterRuns(At(ih, m, t, pc)))
       /\ SF_vars(WaiterLocks(At(ih, m, t, "waiting")))
  /\ WF_vars((\E d \in evicted : GCDrop(d)) \/ GCExit)
  /\ WF_vars(RebuildSwap \/ RebuildCommit \/ RebuildDone
              \/ (\E s \in snaps, keepsInfo \in BOOLEAN : RebuildReadd(s, keepsInfo)))
  /\ WF_vars(RecoveryExit)
  /\ SF_vars(CloseSignal) /\ WF_vars(CloseClient)

FairSpec == Spec /\ Fairness

-----------------------------------------------------------------------------
(* A torrent the registry serves is never left bound to a closed client:    *)
(* its handle belongs to the current client, or the rebuild under way has   *)
(* it among the torrents it is about to bind again (Add's comment fears a   *)
(* handle "from a since-closed client").                                    *)
Pending(ih) ==
  \/ \E s \in snaps : s.ih = ih /\ s.m = torrents[ih]
  \/ rebAt = "commit" /\ cur.ih = ih /\ cur.m = torrents[ih]

NoStrandedTorrent ==
  \A ih \in Hash : Tracked(ih) =>
    \/ TrackedMt(ih).t > epoch[ih]
    \/ rebAt \in {"readd", "commit"} /\ Pending(ih)

(* While a waiter holds clientMu to announce or drop its handle, the handle *)
(* belongs to the current client: the generation cannot change under it.    *)
NoStaleAttach ==
  \A w \in waiters : w.pc \in {"attach", "drop"} => w.t > epoch[w.ih]

(* Every way of dropping a torrent (Remove, the collector, a metadata       *)
(* timeout, a failed re-add) stops its warmers: once the drop is over the   *)
(* forgotten managedTorrent has no live warm context, not even one a racing *)
(* Resume or re-open made, so no warmer outlives it and delays Close.       *)
BeingDropped(ih, m) ==
  \/ \E c \in Caller : req[c].pc = "drop" /\ req[c].ih = ih /\ req[c].m = m
  \/ \E d \in evicted : d.ih = ih /\ d.m = m
  \/ \E w \in waiters : w.pc = "drop" /\ w.ih = ih /\ w.m = m

ForgottenIsCancelled ==
  \A ih \in Hash, m \in Torrent :
    mt[ih][m].warm => torrents[ih] = m \/ BeingDropped(ih, m)

(* Someone is responsible for the session the client runs for ih: it is     *)
(* tracked, or a goroutine still has its handle to register, commit or drop.*)
Owned(ih) ==
  \/ Tracked(ih) /\ TrackedMt(ih).t = swarm[ih]
  \/ \E c \in Caller : req[c].ih = ih /\
       \/ req[c].pc = "register" /\ req[c].t = swarm[ih]
       \/ req[c].pc = "drop" /\ mt[ih][req[c].m].t = swarm[ih]
  \/ \E d \in evicted : d.ih = ih /\ d.t = swarm[ih]
  \/ \E w \in waiters : w.pc = "drop" /\ w.ih = ih /\ w.t = swarm[ih]
  \/ rebAt = "commit" /\ cur.ih = ih /\ cur.t = swarm[ih]

Orphan(ih) == swarm[ih] # 0 /\ ~Owned(ih)

(* A session of the client is orphaned (it downloads and seeds until the    *)
(* daemon exits, and nothing can collect it) by one step only: an Add that  *)
(* rebinds a tracked torrent to a handle another goroutine has dropped in   *)
(* the meantime.                                                            *)
RacedAdd(ih) ==
  \E c \in Caller : /\ req[c].pc = "register" /\ req[c].ih = ih
                    /\ Tracked(ih) /\ req[c].t < swarm[ih]
                    /\ req'[c].pc = "idle"

OrphanOnlyByRacedAdd ==
  [][\A ih \in Hash : Orphan(ih)' => Orphan(ih) \/ RacedAdd(ih)]_vars

(* The collector forgets a torrent only when nobody streams it: no viewer   *)
(* that is reading a tracked torrent, whichever other viewers of it came    *)
(* and went, sees a scan of the collector forget it.                        *)
CollectorSparesViewers ==
  [][\A v \in Viewer :
       LET ih == view[v].ih
       IN view[v].pc = "reading" /\ torrents[ih] = view[v].m
          => torrents'[ih] = torrents[ih] \/ gcAt' = gcAt]_vars

(* Once Close has closed the client nothing runs on it: no session is left  *)
(* or started, no goroutine of the engine remains, no Add holds a handle.   *)
NothingAfterClose ==
  closer = "closed" =>
    /\ \A ih \in Hash : swarm[ih] = 0
    /\ waiters = {} /\ ~ReadLocked
    /\ gcAt = "exited" /\ rebAt = "exited"

(* What the comment on lastActiveAt says: "in-flight playback must never be *)
(* torn down by the GC".                                                    *)
GCSparesPlayback ==
  \A d \in evicted : mt[d.ih][d.m].readers = {}

(* What is served, what of it is bound to a closed client, and what the    *)
(* engine is doing, as the abstract binding specification sees it.          *)
Served == {ih \in Hash : torrents[ih] # 0}
Stale  == {ih \in Served : mt[ih][torrents[ih]].t <= epoch[ih]}
Mode   == IF Closed THEN "stopped"
          ELSE IF rebAt \in {"readd", "commit"} THEN "swapping" ELSE "serving"

B == INSTANCE Binding WITH tracked <- Served, stale <- Stale, mode <- Mode

(* The registry implements Binding: recreateClient rebinds or forgets every *)
(* torrent before it serves again, and meanwhile Add tracks none.           *)
BindingSpec == B!BSpec

-----------------------------------------------------------------------------
(* The inductive strengthening of the safety invariants.                    *)

(* Handles are numbered in the order the clients make them.                 *)
HandlesOrdered ==
  \A ih \in Hash : /\ epoch[ih] <= born[ih]
                   /\ swarm[ih] # 0 => epoch[ih] < swarm[ih] /\ swarm[ih] <= born[ih]

(* A managedTorrent is bound to a handle some client made.                  *)
BoundHandles ==
  \A ih \in Hash, m \in Torrent : mt[ih][m].t <= born[ih]

(* A pinned Add holds a handle of the current client; a Remove knows what   *)
(* it forgot.                                                               *)
RequestsFormed ==
  \A c \in Caller :
    /\ req[c].pc = "register" =>
         req[c].ih \in Hash /\ epoch[req[c].ih] < req[c].t /\ req[c].t <= born[req[c].ih]
    /\ req[c].pc = "drop" => req[c].ih \in Hash /\ req[c].m \in Torrent

(* A viewer looked its managedTorrent up.                                   *)
ViewsFormed ==
  \A v \in Viewer : view[v].pc # "idle" => view[v].ih \in Hash /\ view[v].m \in Torrent

(* clientMu is exclusive.                                                   *)
LockExclusive == ~(WriteLocked /\ ReadLocked)

(* The managedTorrents there are, and room for the ones being registered.   *)
TorrentsMade ==
  \A ih \in Hash : /\ torrents[ih] <= made[ih]
                   /\ made[ih] + Cardinality(Registering(ih)) <= MaxTorrent

(* The snapshot covers what is tracked until the old client is closed; a    *)
(* torrent is visited once; the one being committed has a current handle.   *)
SnapshotCovers ==
  /\ rebAt = "snapped" => \A ih \in Hash : Tracked(ih) => Pending(ih)
  /\ rebAt \notin {"snapped", "readd", "commit"} => snaps = {}
  /\ \A s \in snaps : born[s.ih] < MaxHandle
  /\ \A s1, s2 \in snaps : s1.ih = s2.ih => s1 = s2

CommitFormed ==
  rebAt = "commit" =>
    /\ cur.ih \in Hash /\ cur.m \in Torrent
    /\ epoch[cur.ih] < cur.t /\ cur.t <= born[cur.ih]
    /\ \A s \in snaps : s.ih # cur.ih

(* Together they are inductive: no step of any goroutine breaks them.       *)
IInv ==
  /\ TypeOK
  /\ HandlesOrdered /\ BoundHandles /\ RequestsFormed /\ ViewsFormed
  /\ LockExclusive /\ TorrentsMade
  /\ SnapshotCovers /\ CommitFormed
  /\ NoStrandedTorrent /\ NoStaleAttach

(* Close always completes: no adder, waiter, collector or rebuild can hold  *)
(* it off for ever.                                                         *)
CloseCompletes == closer = "closing" ~> closer = "closed"

(* A tracked public torrent whose metadata is known gets the public         *)
(* trackers, after a rebuild too, unless it is forgotten, bound to another  *)
(* handle or the engine shuts down first.                                   *)
Announceable(ih, t) ==
  /\ ih \notin Private /\ closer = "open"
  /\ Tracked(ih) /\ TrackedMt(ih).t = t /\ t \in info[ih]

TrackersAttached ==
  \A ih \in Hash, t \in Handle :
    Announceable(ih, t) ~> (t \in trackers[ih] \/ ~Announceable(ih, t))
=============================================================================
