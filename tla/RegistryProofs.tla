--------------------------- MODULE RegistryProofs ---------------------------
(***************************************************************************)
(* IInv is inductive: it holds initially and every step keeps it.  Each    *)
(* group of steps (callers, viewers, torrents, waiters, the collector, the *)
(* rebuild, Close) has a lemma, with a step per action and, under it, a    *)
(* step per conjunct of IInv that the action can disturb.                  *)
(***************************************************************************)
EXTENDS Registry, FiniteSetTheorems, TLAPS

USE HashAssumption, CallerAssumption, BoundsAssumption

LEMMA InitIInv == Init => IInv
<1> SUFFICES ASSUME Init PROVE IInv
  OBVIOUS
<1> USE DEF Init
<1>1. TypeOK
  <2>1. mt \in [Hash -> [Torrent -> Managed]]
    BY BoundsAssumption DEF Managed, Torrent
  <2>2. cur \in Commit /\ req \in [Caller -> Request] /\ view \in [Viewer -> Viewing]
    BY DEF Idle, Away, NoCur, Request, Viewing, Commit
  <2> QED
    BY <2>1, <2>2 DEF TypeOK
<1>2. \A ih \in Hash : Registering(ih) = {}
  BY DEF Registering, Idle
<1>3. TorrentsMade
  <2> SUFFICES ASSUME NEW ih \in Hash
               PROVE  torrents[ih] <= made[ih] /\ made[ih] + Cardinality(Registering(ih)) <= MaxTorrent
    BY DEF TorrentsMade
  <2>1. Cardinality(Registering(ih)) = 0
    BY <1>2, FS_EmptySet
  <2> QED
    BY <2>1
<1>4. HandlesOrdered /\ BoundHandles /\ RequestsFormed /\ ViewsFormed
  BY DEF HandlesOrdered, BoundHandles, RequestsFormed, ViewsFormed, Idle, Away
<1>5. LockExclusive /\ SnapshotCovers /\ CommitFormed /\ NoStrandedTorrent /\ NoStaleAttach
  BY DEF NoStaleAttach, LockExclusive, WriteLocked, SnapshotCovers, CommitFormed, NoStrandedTorrent, Tracked
<1> QED
  BY <1>1, <1>3, <1>4, <1>5 DEF IInv

-----------------------------------------------------------------------------
(* A step that makes no handle, tracks nothing new and moves no rebuild:    *)
(* only its types and its lock are left to show.                            *)
LEMMA QuietStep ==
  ASSUME IInv, TypeOK', RequestsFormed', ViewsFormed',
         UNCHANGED <<born, epoch, made, rebuild>>,
         \A ih \in Hash : swarm'[ih] \in {0, swarm[ih]},
         \A ih \in Hash : torrents'[ih] \in {0, torrents[ih]},
         \A ih \in Hash, m \in Torrent : mt'[ih][m].t = mt[ih][m].t,
         \A ih \in Hash : Registering(ih)' = Registering(ih),
         WriteLocked => ~ReadLocked',
         NoStaleAttach'
  PROVE  IInv'
<1> USE DEF IInv, rebuild
<1>1. HandlesOrdered'
  BY DEF HandlesOrdered, TypeOK
<1>2. LockExclusive'
  BY DEF LockExclusive, WriteLocked
<1>3. TorrentsMade'
  <2> SUFFICES ASSUME NEW ih \in Hash
               PROVE  (torrents[ih] <= made[ih] /\ made[ih] + Cardinality(Registering(ih)) <= MaxTorrent)'
    BY DEF TorrentsMade
  <2>1. Registering(ih)' = Registering(ih)
    OBVIOUS
  <2>2. Cardinality(Registering(ih))' = Cardinality(Registering(ih))
    BY <2>1
  <2>3. torrents'[ih] <= made'[ih]
    <3>1. torrents[ih] <= made[ih] /\ made[ih] \in Nat
      BY DEF TorrentsMade, TypeOK
    <3> QED
      BY <3>1
  <2> QED
    BY <2>2, <2>3 DEF TorrentsMade
<1>4. SnapshotCovers'
  <2>1. \A ih \in Hash : Tracked(ih)' => Tracked(ih) /\ torrents'[ih] = torrents[ih]
    BY DEF Tracked
  <2>2. rebAt = "snapped" => \A ih \in Hash : Tracked(ih)' => Pending(ih)'
    BY <2>1 DEF SnapshotCovers, Pending
  <2> QED
    BY <2>2 DEF SnapshotCovers
<1>5. CommitFormed'
  BY DEF CommitFormed
<1>6. NoStrandedTorrent'
  <2> SUFFICES ASSUME NEW ih \in Hash, Tracked(ih)'
               PROVE  TrackedMt(ih)'.t > epoch'[ih] \/ (rebAt \in {"readd", "commit"} /\ Pending(ih))'
    BY DEF NoStrandedTorrent
  <2>1. torrents'[ih] = torrents[ih] /\ torrents[ih] \in Torrent
    BY DEF Tracked, TypeOK, Torrent
  <2>2. TrackedMt(ih)'.t = TrackedMt(ih).t
    BY <2>1 DEF TrackedMt
  <2>3. Pending(ih)' = Pending(ih)
    BY <2>1 DEF Pending
  <2> QED
    BY <2>1, <2>2, <2>3 DEF NoStrandedTorrent, Tracked
<1>7. BoundHandles'
  BY DEF BoundHandles, TypeOK
<1> QED
  BY <1>1, <1>2, <1>3, <1>4, <1>5, <1>6, <1>7

(* The caller's requests, the viewers and the locks of a step that leaves   *)
(* them alone.                                                              *)
LEMMA SameRequests ==
  ASSUME IInv, UNCHANGED <<born, epoch, req>>
  PROVE  RequestsFormed' /\ \A ih \in Hash : Registering(ih)' = Registering(ih)
BY DEF IInv, RequestsFormed, Registering

LEMMA HandlesGrow ==
  ASSUME IInv, TypeOK', mt' = mt, \A h \in Hash : born[h] <= born'[h]
  PROVE  BoundHandles'
<1> SUFFICES ASSUME NEW h \in Hash, NEW m \in Torrent PROVE mt[h][m].t <= born'[h]
  BY DEF BoundHandles
<1>1. mt[h][m].t \in Nat /\ born[h] \in Nat /\ born'[h] \in Nat
  BY DEF IInv, TypeOK, Managed
<1> QED
  BY <1>1 DEF IInv, BoundHandles

LEMMA SameViews ==
  ASSUME IInv, UNCHANGED view
  PROVE  ViewsFormed'
BY DEF IInv, ViewsFormed

LEMMA SameLocks ==
  ASSUME IInv, UNCHANGED <<req, rebuild>>,
         \A w \in waiters' : w.pc \in {"attach", "drop"} => ~WriteLocked \/ w \in waiters
  PROVE  WriteLocked => ~ReadLocked'
BY DEF IInv, LockExclusive, ReadLocked, WriteLocked, rebuild

(* Changing a managedTorrent without rebinding it.                          *)
LEMMA UpdatedMt ==
  ASSUME mt \in [Hash -> [Torrent -> Managed]],
         NEW ih \in Hash, NEW m \in Torrent, NEW r \in Managed,
         mt' = Updated(ih, m, r)
  PROVE  /\ mt' \in [Hash -> [Torrent -> Managed]]
         /\ mt'[ih][m] = r
         /\ \A h \in Hash, n \in Torrent : h # ih \/ n # m => mt'[h][n] = mt[h][n]
BY DEF Updated

LEMMA SameHandles ==
  ASSUME mt \in [Hash -> [Torrent -> Managed]],
         NEW ih \in Hash, NEW m \in Torrent, NEW r \in Managed, r.t = mt[ih][m].t,
         mt' = Updated(ih, m, r)
  PROVE  /\ mt' \in [Hash -> [Torrent -> Managed]]
         /\ \A h \in Hash, n \in Torrent : mt'[h][n].t = mt[h][n].t
BY UpdatedMt

-----------------------------------------------------------------------------
(* Requests on a tracked torrent, and its environment.                      *)
LEMMA TorrentHandles ==
  ASSUME IInv, NEW ih \in Hash, TorrentStep(ih)
  PROVE  /\ mt' \in [Hash -> [Torrent -> Managed]]
         /\ \A h \in Hash, m \in Torrent : mt'[h][m].t = mt[h][m].t
<1> USE DEF IInv
<1>1. CASE MetadataArrives(ih)
  BY <1>1 DEF MetadataArrives, registry, TypeOK
<1>2. CASE ~MetadataArrives(ih)
  <2>1. torrents[ih] \in Torrent /\ TrackedMt(ih) \in Managed
    BY <1>2 DEF TorrentStep, Pause, Resume, Touch, GoIdle, TypeOK, Tracked, TrackedMt, Torrent
  <2>2. PICK r \in Managed : r.t = TrackedMt(ih).t /\ mt' = Updated(ih, torrents[ih], r)
    BY <1>2, <2>1 DEF TorrentStep, Pause, Resume, Touch, GoIdle, ResumeLocked, Managed, Closed
  <2> QED
    BY <2>1, <2>2, SameHandles DEF TypeOK, TrackedMt
<1> QED
  BY <1>1, <1>2

LEMMA TorrentStepIInv ==
  ASSUME IInv, NEW ih \in Hash, TorrentStep(ih)
  PROVE  IInv'
<1> USE DEF IInv
<1>1. UNCHANGED <<swarm, born, epoch, trackers, torrents, made, req, view, waiters, collect, rebuild, closer>>
  BY DEF TorrentStep, Pause, Resume, Touch, GoIdle, MetadataArrives, client, registry
<1>2. info' \in [Hash -> SUBSET Handle]
  BY DEF TorrentStep, Pause, Resume, Touch, GoIdle, MetadataArrives, client, TypeOK, Handle
<1>3. /\ mt' \in [Hash -> [Torrent -> Managed]]
      /\ \A h \in Hash, m \in Torrent : mt'[h][m].t = mt[h][m].t
  BY TorrentHandles
<1>4. TypeOK'
  BY <1>1, <1>2, <1>3 DEF TypeOK, collect, rebuild
<1> QED
  BY <1>1, <1>3, <1>4, SameRequests, SameViews, SameLocks, QuietStep DEF NoStaleAttach

LEMMA UpdatedView ==
  ASSUME IInv, NEW v \in Viewer, NEW a \in Viewing, view' = [view EXCEPT ![v] = a],
         a.pc # "idle" => a.ih \in Hash /\ a.m \in Torrent
  PROVE  ViewsFormed' /\ view' \in [Viewer -> Viewing]
BY DEF IInv, TypeOK, ViewsFormed

(* Streams.                                                                 *)
LEMMA ViewerHandles ==
  ASSUME IInv, NEW v \in Viewer, ViewerStep(v)
  PROVE  /\ mt' \in [Hash -> [Torrent -> Managed]]
         /\ \A h \in Hash, m \in Torrent : mt'[h][m].t = mt[h][m].t
<1> USE DEF IInv
<1>1. CASE \E ih \in Hash : StreamOpen(v, ih)
  BY <1>1 DEF StreamOpen, registry, TypeOK
<1>2. CASE StreamRegister(v) \/ StreamEnd(v)
  <2>1. view[v].ih \in Hash /\ view[v].m \in Torrent
    BY <1>2 DEF StreamRegister, StreamEnd, ViewsFormed
  <2>2. PICK r \in Managed : r.t = Viewed(v).t /\ mt' = Updated(view[v].ih, view[v].m, r)
    <3>1. Viewed(v) \in Managed
      BY <2>1 DEF TypeOK, Viewed
    <3> QED
      BY <1>2, <3>1 DEF StreamRegister, StreamEnd, Managed
  <2> QED
    BY <2>1, <2>2, SameHandles DEF Viewed, TypeOK
<1> QED
  BY <1>1, <1>2 DEF ViewerStep

LEMMA ViewerStepIInv ==
  ASSUME IInv, NEW v \in Viewer, ViewerStep(v)
  PROVE  IInv'
<1> USE DEF IInv
<1>1. UNCHANGED <<swarm, born, epoch, torrents, made, req, waiters, rebuild>>
  BY DEF ViewerStep, StreamOpen, StreamRegister, StreamEnd, client, registry
<1>2. ViewsFormed' /\ view' \in [Viewer -> Viewing]
  <2>1. \A ih \in Hash : Tracked(ih) => torrents[ih] \in Torrent
    BY DEF TypeOK, Tracked, Torrent
  <2>2. CASE \E ih \in Hash : StreamOpen(v, ih)
    <3>1. PICK ih \in Hash : StreamOpen(v, ih)
      BY <2>2
    <3>2. torrents[ih] \in Torrent
      BY <2>1, <3>1 DEF StreamOpen
    <3>3. [pc |-> "open", ih |-> ih, m |-> torrents[ih]] \in Viewing
      BY <3>2 DEF Viewing, Torrent
    <3> QED
      BY <3>1, <3>2, <3>3, UpdatedView DEF StreamOpen
  <2>3. CASE StreamRegister(v)
    <3>1. [view[v] EXCEPT !.pc = "reading"] \in Viewing
      <4>1. view[v] \in Viewing
        BY DEF TypeOK
      <4> QED
        BY <4>1 DEF Viewing
    <3>2. view' = [view EXCEPT ![v] = [view[v] EXCEPT !.pc = "reading"]]
      BY <2>3 DEF StreamRegister
    <3>3. view[v].ih \in Hash /\ view[v].m \in Torrent
      BY <2>3 DEF StreamRegister, ViewsFormed
    <3>4. /\ [view[v] EXCEPT !.pc = "reading"].ih = view[v].ih
          /\ [view[v] EXCEPT !.pc = "reading"].m = view[v].m
      BY DEF Viewing, TypeOK
    <3> QED
      BY <3>1, <3>2, <3>3, <3>4, UpdatedView
  <2>4. CASE StreamEnd(v)
    <3>1. Away \in Viewing /\ Away.pc = "idle"
      BY DEF Away, Viewing
    <3> QED
      BY <2>4, <3>1, UpdatedView DEF StreamEnd
  <2> QED
    BY <2>2, <2>3, <2>4 DEF ViewerStep
<1>3. /\ mt' \in [Hash -> [Torrent -> Managed]]
      /\ \A h \in Hash, m \in Torrent : mt'[h][m].t = mt[h][m].t
  BY ViewerHandles
<1>4. TypeOK'
  BY <1>1, <1>2, <1>3 DEF TypeOK, ViewerStep, StreamOpen, StreamRegister, StreamEnd,
     client, collect, rebuild
<1> QED
  BY <1>1, <1>2, <1>3, <1>4, SameRequests, SameLocks, QuietStep DEF NoStaleAttach

(* Metadata waiters.                                                        *)
LEMMA WaiterHandles ==
  ASSUME IInv, NEW w \in waiters, WaiterStep(w)
  PROVE  /\ mt' \in [Hash -> [Torrent -> Managed]]
         /\ \A h \in Hash, m \in Torrent : mt'[h][m].t = mt[h][m].t
         /\ \A ih \in Hash : swarm'[ih] \in {0, swarm[ih]}
         /\ \A ih \in Hash : torrents'[ih] \in {0, torrents[ih]}
         /\ swarm' \in [Hash -> 0..MaxHandle]
         /\ torrents' \in [Hash -> 0..MaxTorrent]
<1> USE DEF IInv
<1>1. w \in Waiter
  BY DEF TypeOK
<1>2. /\ mt' \in [Hash -> [Torrent -> Managed]]
      /\ \A h \in Hash, m \in Torrent : mt'[h][m].t = mt[h][m].t
  <2>1. CASE WaiterDrop(w)
    <3> DEFINE r == [mt[w.ih][w.m] EXCEPT !.warm = FALSE]
    <3>1. w.ih \in Hash /\ w.m \in Torrent
      BY <1>1 DEF Waiter
    <3>2. mt[w.ih][w.m] \in Managed
      BY <3>1 DEF TypeOK
    <3>3. r \in Managed /\ r.t = mt[w.ih][w.m].t
      BY <3>2 DEF Managed
    <3> QED
      BY <2>1, <3>1, <3>3, SameHandles DEF WaiterDrop, Cancelled, TypeOK
  <2>2. CASE ~WaiterDrop(w)
    BY <2>2 DEF WaiterStep, WaiterStart, WaiterGotInfo, WaiterAttach, WaiterTimeout,
       WaiterQuit, registry, TypeOK
  <2> QED
    BY <2>1, <2>2
<1>3. /\ \A ih \in Hash : swarm'[ih] \in {0, swarm[ih]}
      /\ \A ih \in Hash : torrents'[ih] \in {0, torrents[ih]}
      /\ swarm' \in [Hash -> 0..MaxHandle]
      /\ torrents' \in [Hash -> 0..MaxTorrent]
  <2>1. w.ih \in Hash
    BY <1>1 DEF Waiter
  <2>2. swarm' \in {swarm, Dropped(w.ih, w.t)}
    BY DEF WaiterStep, WaiterStart, WaiterGotInfo, WaiterAttach, WaiterTimeout,
       WaiterDrop, WaiterQuit, client
  <2>3. torrents' \in {torrents, [torrents EXCEPT ![w.ih] = 0]}
    BY DEF WaiterStep, WaiterStart, WaiterGotInfo, WaiterAttach, WaiterTimeout,
       WaiterDrop, WaiterQuit, registry
  <2>4. /\ \A ih \in Hash : swarm'[ih] \in {0, swarm[ih]}
        /\ swarm' \in [Hash -> 0..MaxHandle]
    BY <2>1, <2>2 DEF Dropped, TypeOK
  <2>5. /\ \A ih \in Hash : torrents'[ih] \in {0, torrents[ih]}
        /\ torrents' \in [Hash -> 0..MaxTorrent]
    BY <2>1, <2>3 DEF TypeOK
  <2> QED
    BY <2>4, <2>5
<1> QED
  BY <1>2, <1>3

LEMMA WaiterStepIInv ==
  ASSUME IInv, NEW w \in waiters, WaiterStep(w)
  PROVE  IInv'
<1> USE DEF IInv
<1>1. UNCHANGED <<born, epoch, info, made, req, view, collect, rebuild, closer>>
  BY DEF WaiterStep, WaiterStart, WaiterGotInfo, WaiterAttach, WaiterTimeout,
         WaiterDrop, WaiterQuit, client, registry
<1>2. w \in Waiter
  BY DEF TypeOK
<1>3. /\ mt' \in [Hash -> [Torrent -> Managed]]
      /\ \A h \in Hash, m \in Torrent : mt'[h][m].t = mt[h][m].t
      /\ \A ih \in Hash : swarm'[ih] \in {0, swarm[ih]}
      /\ \A ih \in Hash : torrents'[ih] \in {0, torrents[ih]}
      /\ swarm' \in [Hash -> 0..MaxHandle]
      /\ torrents' \in [Hash -> 0..MaxTorrent]
  BY WaiterHandles
<1>5. \A u \in waiters' :
        /\ u \in Waiter
        /\ u.pc \in {"attach", "drop"} =>
             \/ u \in waiters
             \/ ~WriteLocked /\ IsCurrent(w.ih, w.m, w.t) /\ u.ih = w.ih /\ u.t = w.t
  <2>1. CASE WaiterStart(w)
    <3>1. mt[w.ih][w.m].t \in 0..MaxHandle
      BY <1>2 DEF TypeOK, Waiter, Managed
    <3> QED
      BY <1>2, <2>1, <3>1 DEF WaiterStart, Others, Waiter, TypeOK
  <2>2. CASE ~WaiterStart(w)
    <3>1. CASE WaiterGotInfo(w)
      BY <1>2, <3>1 DEF WaiterGotInfo, Others, Waiter, TypeOK
    <3>2. CASE WaiterTimeout(w)
      BY <1>2, <3>2 DEF WaiterTimeout, Others, Waiter, TypeOK
    <3>3. CASE waiters' = Others(w)
      BY <3>3 DEF Others, TypeOK
    <3> QED
      BY <2>2, <3>1, <3>2, <3>3 DEF WaiterStep, WaiterAttach, WaiterDrop, WaiterQuit
  <2> QED
    BY <2>1, <2>2
<1>6. NoStaleAttach'
  BY <1>1, <1>2, <1>5 DEF NoStaleAttach, NoStrandedTorrent, IsCurrent, Tracked, TrackedMt, 
     WriteLocked, Waiter, Torrent
<1>7. trackers' \in [Hash -> SUBSET Handle]
  <2>1. w.pc = "attach" => w.t \in Handle
    BY <1>2 DEF NoStaleAttach, Waiter, TypeOK, Handle
  <2> QED
    BY <1>2, <2>1 DEF WaiterStep, WaiterStart, WaiterGotInfo, WaiterAttach, WaiterTimeout,
       WaiterDrop, WaiterQuit, client, TypeOK
<1>8. TypeOK'
  BY <1>1, <1>3, <1>5, <1>7 DEF TypeOK, collect, rebuild
<1>9. WriteLocked => ~ReadLocked'
  BY <1>1, <1>5, SameLocks
<1> QED
  BY <1>1, <1>3, <1>6, <1>8, <1>9, SameRequests, SameViews, QuietStep

(* A managedTorrent whose warm context is cancelled keeps its handle.       *)
LEMMA CancelledMt ==
  ASSUME IInv, NEW ih \in Hash, NEW m \in Torrent, mt' = Cancelled(ih, m)
  PROVE  /\ mt' \in [Hash -> [Torrent -> Managed]]
         /\ \A h \in Hash, n \in Torrent : mt'[h][n].t = mt[h][n].t
<1> DEFINE r == [mt[ih][m] EXCEPT !.warm = FALSE]
<1>1. mt[ih][m] \in Managed
  BY DEF IInv, TypeOK
<1>2. r \in Managed /\ r.t = mt[ih][m].t
  BY <1>1 DEF Managed
<1> QED
  BY <1>2, SameHandles DEF Cancelled, IInv, TypeOK

LEMMA DroppedSwarm ==
  ASSUME IInv, NEW ih \in Hash, NEW t, swarm' = Dropped(ih, t)
  PROVE  /\ swarm' \in [Hash -> 0..MaxHandle]
         /\ \A h \in Hash : swarm'[h] \in {0, swarm[h]}
BY DEF IInv, TypeOK, Dropped

(* The collector.                                                           *)
LEMMA GCStepIInv ==
  ASSUME IInv, GCStep
  PROVE  IInv'
<1> USE DEF IInv
<1>1. UNCHANGED <<born, epoch, info, trackers, made, req, view, waiters, rebuild, closer>>
  BY DEF GCStep, GCScan, GCDrop, GCExit, client, registry
<1>2. CASE GCScan
  <2>1. /\ \A ih \in Hash : torrents'[ih] \in {0, torrents[ih]}
        /\ torrents' \in [Hash -> 0..MaxTorrent]
    BY <1>2 DEF GCScan, TypeOK
  <2>2. evicted' \subseteq Eviction
    <3>1. \A ih \in Evictable : ih \in Hash /\ torrents[ih] \in Torrent
      BY DEF Evictable, Tracked, TypeOK, Torrent
    <3>2. \A ih \in Evictable : TrackedMt(ih).t \in 0..MaxHandle
      BY <3>1 DEF TrackedMt, TypeOK, Managed
    <3> QED
      BY <1>2, <3>1, <3>2 DEF GCScan, Eviction
  <2>3. mt' = mt /\ swarm' = swarm
    BY <1>2 DEF GCScan, client
  <2>4. TypeOK'
    BY <1>1, <1>2, <2>1, <2>2, <2>3 DEF TypeOK, GCScan, rebuild
  <2> QED
    BY <1>1, <2>1, <2>3, <2>4, SameRequests, SameViews, SameLocks, QuietStep DEF NoStaleAttach
<1>3. CASE \E d \in evicted : GCDrop(d)
  <2>1. PICK d \in evicted : GCDrop(d)
    BY <1>3
  <2>2. d.ih \in Hash /\ d.m \in Torrent
    BY DEF TypeOK, Eviction
  <2>3. /\ mt' \in [Hash -> [Torrent -> Managed]]
        /\ \A h \in Hash, n \in Torrent : mt'[h][n].t = mt[h][n].t
    BY <2>1, <2>2, CancelledMt DEF GCDrop
  <2>4. /\ swarm' \in [Hash -> 0..MaxHandle]
        /\ \A h \in Hash : swarm'[h] \in {0, swarm[h]}
    BY <2>1, <2>2, DroppedSwarm DEF GCDrop
  <2>5. TypeOK'
    BY <1>1, <2>1, <2>3, <2>4 DEF TypeOK, GCDrop, rebuild
  <2>6. torrents' = torrents
    BY <2>1 DEF GCDrop
  <2> QED
    BY <1>1, <2>3, <2>4, <2>5, <2>6, SameRequests, SameViews, SameLocks, QuietStep DEF NoStaleAttach
<1>4. CASE GCExit
  <2>1. TypeOK' /\ UNCHANGED <<swarm, torrents, mt>>
    BY <1>4 DEF GCExit, TypeOK, client, registry, rebuild
  <2> QED
    BY <1>1, <2>1, SameRequests, SameViews, SameLocks, QuietStep DEF NoStaleAttach
<1> QED
  BY <1>2, <1>3, <1>4 DEF GCStep

(* Close.                                                                   *)
LEMMA CloseHandles ==
  ASSUME IInv, CloseStep
  PROVE  /\ mt' \in [Hash -> [Torrent -> Managed]]
         /\ \A h \in Hash, m \in Torrent : mt'[h][m].t = mt[h][m].t
<1> USE DEF IInv
<1>1. CASE CloseSignal
  <2>1. \A ih \in Hash, m \in Torrent :
           /\ [mt[ih][m] EXCEPT !.warm = FALSE] \in Managed
           /\ [mt[ih][m] EXCEPT !.warm = FALSE].t = mt[ih][m].t
    <3> SUFFICES ASSUME NEW ih \in Hash, NEW m \in Torrent
                 PROVE  /\ [mt[ih][m] EXCEPT !.warm = FALSE] \in Managed
                        /\ [mt[ih][m] EXCEPT !.warm = FALSE].t = mt[ih][m].t
      OBVIOUS
    <3>1. mt[ih][m] \in Managed
      BY DEF TypeOK
    <3> QED
      BY <3>1 DEF Managed
  <2> QED
    BY <1>1, <2>1 DEF CloseSignal
<1>2. CASE CloseCall \/ CloseClient
  BY <1>2 DEF CloseCall, CloseClient, registry, TypeOK
<1> QED
  BY <1>1, <1>2 DEF CloseStep

LEMMA CloseStepIInv ==
  ASSUME IInv, CloseStep
  PROVE  IInv'
<1> USE DEF IInv
<1>1. UNCHANGED <<born, epoch, info, trackers, torrents, made, req, view, waiters, rebuild, collect>>
  BY DEF CloseStep, CloseCall, CloseSignal, CloseClient, client, registry
<1>2. /\ \A ih \in Hash : swarm'[ih] \in {0, swarm[ih]}
      /\ swarm' \in [Hash -> 0..MaxHandle]
  BY DEF CloseStep, CloseCall, CloseSignal, CloseClient, client, TypeOK
<1>3. /\ mt' \in [Hash -> [Torrent -> Managed]]
      /\ \A h \in Hash, m \in Torrent : mt'[h][m].t = mt[h][m].t
  BY CloseHandles
<1>4. closer' \in {"open", "closing", "draining", "closed"}
  BY DEF CloseStep, CloseCall, CloseSignal, CloseClient
<1>5. TypeOK'
  BY <1>1, <1>2, <1>3, <1>4 DEF TypeOK, rebuild, collect
<1> QED
  BY <1>1, <1>2, <1>3, <1>5, SameRequests, SameViews, SameLocks, QuietStep DEF NoStaleAttach

-----------------------------------------------------------------------------
(* Adding and removing torrents.  Registering grows by the caller a bind    *)
(* pins, and shrinks by the caller that registers.                          *)
LEMMA RegisteringFinite ==
  ASSUME NEW ih \in Hash
  PROVE  IsFiniteSet(Registering(ih)) /\ Cardinality(Registering(ih)) \in Nat
<1>1. IsFiniteSet(Registering(ih))
  BY FS_Subset DEF Registering
<1> QED
  BY <1>1, FS_CardinalityType

LEMMA RemoveStepIInv ==
  ASSUME IInv, NEW c \in Caller, (\E ih \in Hash : RemoveForget(c, ih)) \/ RemoveDrop(c)
  PROVE  IInv'
<1> USE DEF IInv
<1>1. UNCHANGED <<born, epoch, info, trackers, made, view, waiters, collect, rebuild, closer>>
  BY DEF RemoveForget, RemoveDrop, client
<1>2. CASE \E ih \in Hash : RemoveForget(c, ih)
  <2>1. PICK ih \in Hash : RemoveForget(c, ih)
    BY <1>2
  <2> DEFINE a == [pc |-> "drop", ih |-> ih, m |-> torrents[ih], t |-> 0]
  <2>2. torrents[ih] \in Torrent
    BY <2>1 DEF RemoveForget, Tracked, TypeOK, Torrent
  <2>3. a \in Request
    BY <2>2 DEF Request, Torrent
  <2>4. req' = [req EXCEPT ![c] = a] /\ req[c].pc = "idle"
    BY <2>1 DEF RemoveForget
  <2>5. RequestsFormed' /\ req' \in [Caller -> Request]
    BY <1>1, <2>2, <2>3, <2>4 DEF RequestsFormed, TypeOK
  <2>6. \A h \in Hash : Registering(h)' = Registering(h)
    BY <2>4 DEF Registering, TypeOK
  <2>7. /\ \A h \in Hash : torrents'[h] \in {0, torrents[h]}
        /\ torrents' \in [Hash -> 0..MaxTorrent]
        /\ UNCHANGED <<swarm, mt>>
    BY <2>1 DEF RemoveForget, TypeOK, client
  <2>8. TypeOK'
    BY <1>1, <2>5, <2>7 DEF TypeOK, collect, rebuild
  <2>9. WriteLocked => ~ReadLocked'
    BY <1>1, <2>4 DEF LockExclusive, ReadLocked, TypeOK
  <2> QED
    BY <1>1, <2>5, <2>6, <2>7, <2>8, <2>9, SameViews, QuietStep DEF NoStaleAttach
<1>3. CASE RemoveDrop(c)
  <2>1. req[c].ih \in Hash /\ req[c].m \in Torrent
    BY <1>3 DEF RemoveDrop, RequestsFormed
  <2>2. /\ mt' \in [Hash -> [Torrent -> Managed]]
        /\ \A h \in Hash, n \in Torrent : mt'[h][n].t = mt[h][n].t
    BY <1>3, <2>1, CancelledMt DEF RemoveDrop
  <2>3. /\ swarm' \in [Hash -> 0..MaxHandle]
        /\ \A h \in Hash : swarm'[h] \in {0, swarm[h]}
    BY <1>3, <2>1, DroppedSwarm DEF RemoveDrop
  <2>4. req' = [req EXCEPT ![c] = Idle] /\ req[c].pc = "drop" /\ Idle \in Request /\ torrents' = torrents
    BY <1>3 DEF RemoveDrop, Idle, Request
  <2>5. RequestsFormed' /\ req' \in [Caller -> Request]
    BY <1>1, <2>4 DEF RequestsFormed, TypeOK, Idle
  <2>6. \A h \in Hash : Registering(h)' = Registering(h)
    BY <2>4 DEF Registering, TypeOK, Idle
  <2>7. TypeOK'
    BY <1>1, <2>2, <2>3, <2>4, <2>5 DEF TypeOK, collect, rebuild
  <2>8. WriteLocked => ~ReadLocked'
    BY <1>1, <2>4 DEF LockExclusive, ReadLocked, TypeOK, Idle
  <2> QED
    BY <1>1, <2>2, <2>3, <2>4, <2>5, <2>6, <2>7, <2>8, SameViews, QuietStep DEF NoStaleAttach
<1> QED
  BY <1>2, <1>3

LEMMA AddBindIInv ==
  ASSUME IInv, NEW c \in Caller, NEW ih \in Hash, NEW withInfo \in BOOLEAN,
         AddBind(c, ih, withInfo)
  PROVE  IInv'
<1> USE DEF IInv
<1> DEFINE t == IF swarm[ih] = 0 THEN born[ih] + 1 ELSE swarm[ih]
           a == [pc |-> "register", ih |-> ih, m |-> 0, t |-> t]
<1>1. UNCHANGED <<epoch, trackers, registry, view, waiters, collect, rebuild, closer>>
  BY DEF AddBind
<1>2. /\ req' = [req EXCEPT ![c] = a] /\ req[c].pc = "idle" /\ ~WriteLocked
      /\ swarm' = [swarm EXCEPT ![ih] = t]
      /\ born' = [born EXCEPT ![ih] = IF swarm[ih] = 0 THEN t ELSE @]
      /\ info' = [info EXCEPT ![ih] = IF withInfo THEN @ \cup {t} ELSE @]
      /\ swarm[ih] = 0 => born[ih] < MaxHandle
      /\ made[ih] + Cardinality(Registering(ih)) < MaxTorrent
  BY DEF AddBind
<1>3. t \in Handle /\ epoch[ih] < t /\ t <= born'[ih] /\ born[ih] <= born'[ih]
  BY <1>2 DEF TypeOK, HandlesOrdered, Handle
<1>4. a \in Request
  BY <1>3 DEF Request, Handle
<1> HIDE DEF t, a
<1>5. TypeOK'
  BY <1>1, <1>2, <1>3, <1>4 DEF TypeOK, Handle, registry, collect, rebuild
<1>6. HandlesOrdered' /\ BoundHandles'
  <2>1. \A h \in Hash : born[h] <= born'[h]
    BY <1>2, <1>3 DEF TypeOK
  <2>2. HandlesOrdered'
    BY <1>1, <1>2, <1>3 DEF HandlesOrdered, TypeOK, Handle
  <2> QED
    BY <1>1, <1>5, <2>1, <2>2, HandlesGrow DEF registry
<1>7. a.pc = "register" /\ a.ih = ih /\ a.t = t
  BY DEF a
<1>8. RequestsFormed'
  BY <1>1, <1>2, <1>3, <1>7 DEF RequestsFormed, TypeOK, Handle, Request
<1>9. TorrentsMade'
  <2> SUFFICES ASSUME NEW h \in Hash
               PROVE  (torrents[h] <= made[h] /\ made[h] + Cardinality(Registering(h)) <= MaxTorrent)'
    BY DEF TorrentsMade
  <2>1. torrents'[h] <= made'[h] /\ made'[h] = made[h] /\ made[h] \in Nat
    BY <1>1 DEF registry, TorrentsMade, TypeOK
  <2>2. CASE h # ih
    <3>1. Registering(h)' = Registering(h)
      BY <1>2, <1>7, <2>2 DEF Registering, TypeOK
    <3> QED
      BY <2>1, <3>1 DEF TorrentsMade
  <2>3. CASE h = ih
    <3>1. Registering(h)' = Registering(h) \cup {c} /\ c \notin Registering(h)
      BY <1>2, <1>7, <2>3 DEF Registering, TypeOK
    <3>2. Cardinality(Registering(h)') = Cardinality(Registering(h)) + 1
      BY <3>1, RegisteringFinite, FS_AddElement
    <3> QED
      BY <1>2, <2>1, <2>3, <3>2, RegisteringFinite
  <2> QED
    BY <2>2, <2>3
<1>10. snaps = {} /\ rebAt \notin {"snapped", "readd", "commit"}
  BY <1>2 DEF WriteLocked, SnapshotCovers
<1>11. LockExclusive' /\ SnapshotCovers' /\ CommitFormed'
  BY <1>1, <1>10 DEF LockExclusive, WriteLocked, SnapshotCovers, CommitFormed, rebuild
<1>12. NoStrandedTorrent' /\ ViewsFormed' /\ NoStaleAttach'
  BY <1>1, <1>10 DEF NoStrandedTorrent, ViewsFormed, NoStaleAttach, registry, rebuild, Tracked, TrackedMt
<1> QED
  BY <1>5, <1>6, <1>8, <1>9, <1>11, <1>12

(* Registering: the caller leaves Registering, one managedTorrent is        *)
(* changed, and it is bound to a handle of the current client.              *)
LEMMA AddRegisterIInv ==
  ASSUME IInv, NEW c \in Caller, AddRegister(c)
  PROVE  IInv'
<1> USE DEF IInv
<1> DEFINE ih == req[c].ih
           m  == torrents'[ih]
           r  == mt'[ih][m]
<1>1. UNCHANGED <<client, view, collect, rebuild, closer>>
  BY DEF AddRegister, AddReopen, AddNew
<1>2. req[c].pc = "register" /\ req' = [req EXCEPT ![c] = Idle]
  BY DEF AddRegister, AddReopen, AddNew
<1>3. ih \in Hash /\ epoch[ih] < req[c].t /\ req[c].t \in Handle
  BY <1>2 DEF RequestsFormed, TypeOK, Request, Handle
<1>4. ReadLocked /\ ~WriteLocked /\ snaps = {}
  BY <1>2 DEF ReadLocked, LockExclusive, SnapshotCovers, WriteLocked
<1>5. made[ih] + 1 <= MaxTorrent
  <2>1. c \in Registering(ih)
    BY <1>2 DEF Registering
  <2>2. Cardinality(Registering(ih)) # 0 /\ Cardinality(Registering(ih)) \in Nat
    BY <1>3, <2>1, RegisteringFinite, FS_EmptySet
  <2> QED
    BY <1>3, <2>2 DEF TorrentsMade, TypeOK
<1>6. /\ mt' \in [Hash -> [Torrent -> Managed]]
      /\ m \in Torrent /\ r.t = req[c].t
      /\ \A h \in Hash, n \in Torrent : h # ih \/ n # m => mt'[h][n] = mt[h][n]
      /\ torrents' \in [Hash -> 0..MaxTorrent] /\ made' \in [Hash -> 0..MaxTorrent]
      /\ \A h \in Hash : h # ih => torrents'[h] = torrents[h]
      /\ \A h \in Hash : torrents'[h] <= made'[h]
      /\ waiters' \subseteq waiters \cup {Spawned(ih, m)}
  <2>1. CASE AddReopen(c)
    <3>1. torrents' = torrents /\ made' = made /\ m \in Torrent
      BY <1>3, <2>1 DEF AddReopen, Tracked, TypeOK, Torrent
    <3>2. ResumeLocked(mt[ih][m], req[c].t) \in Managed
      <4>1. mt[ih][m] \in Managed /\ req[c].t \in 0..MaxHandle
        BY <1>3, <3>1 DEF TypeOK, Handle
      <4> QED
        BY <4>1 DEF ResumeLocked, Managed, Closed
    <3>3. ResumeLocked(mt[ih][m], req[c].t).t = req[c].t
      BY <1>3, <3>1 DEF TypeOK, ResumeLocked, Managed
    <3>4. mt' = Updated(ih, m, ResumeLocked(mt[ih][m], req[c].t))
      BY <2>1, <3>1 DEF AddReopen
    <3>5. /\ mt' \in [Hash -> [Torrent -> Managed]]
          /\ r = ResumeLocked(mt[ih][m], req[c].t)
          /\ \A h \in Hash, n \in Torrent : h # ih \/ n # m => mt'[h][n] = mt[h][n]
      <4>1. mt \in [Hash -> [Torrent -> Managed]]
        BY DEF TypeOK
      <4> HIDE DEF ih, m
      <4> QED
        BY <1>3, <3>1, <3>2, <3>4, <4>1, UpdatedMt
    <3>6. waiters' \subseteq waiters \cup {Spawned(ih, m)}
      BY <2>1, <3>1 DEF AddReopen
    <3> QED
      BY <3>1, <3>3, <3>5, <3>6 DEF TypeOK, TorrentsMade
  <2>2. CASE AddNew(c)
    <3>1. /\ torrents' = [torrents EXCEPT ![ih] = made[ih] + 1]
          /\ made' = [made EXCEPT ![ih] = made[ih] + 1]
      BY <2>2 DEF AddNew
    <3>2. made[ih] \in Nat /\ made[ih] + 1 \in Torrent
      BY <1>3, <1>5 DEF TypeOK, Torrent
    <3>3. m = made[ih] + 1
      BY <1>3, <3>1 DEF TypeOK
    <3>4. Fresh(req[c].t) \in Managed /\ Fresh(req[c].t).t = req[c].t
      BY <1>3 DEF Fresh, Managed, Handle
    <3>5. mt' = Updated(ih, m, Fresh(req[c].t)) /\ waiters' = waiters \cup {Spawned(ih, m)}
      BY <2>2, <3>3 DEF AddNew
    <3>6. /\ mt' \in [Hash -> [Torrent -> Managed]]
          /\ r = Fresh(req[c].t)
          /\ \A h \in Hash, n \in Torrent : h # ih \/ n # m => mt'[h][n] = mt[h][n]
      <4>1. mt \in [Hash -> [Torrent -> Managed]] /\ m \in Torrent
        BY <3>2, <3>3 DEF TypeOK
      <4> HIDE DEF ih, m
      <4> QED
        BY <1>3, <3>4, <3>5, <4>1, UpdatedMt
    <3>7. /\ torrents' \in [Hash -> 0..MaxTorrent] /\ made' \in [Hash -> 0..MaxTorrent]
          /\ \A h \in Hash : h # ih => torrents'[h] = torrents[h]
          /\ \A h \in Hash : torrents'[h] <= made'[h]
      BY <1>3, <3>1, <3>2 DEF TypeOK, Torrent, TorrentsMade
    <3> QED
      BY <3>2, <3>3, <3>4, <3>5, <3>6, <3>7
  <2> QED
    BY <2>1, <2>2 DEF AddRegister
<1>7. waiters' \subseteq Waiter /\ NoStaleAttach'
  <2>1. Spawned(ih, m) \in Waiter /\ Spawned(ih, m).pc = "spawned"
    BY <1>3, <1>6 DEF Spawned, Waiter
  <2>2. waiters \subseteq Waiter
    BY DEF TypeOK
  <2> HIDE DEF ih, m
  <2> QED
    BY <1>1, <1>6, <2>1, <2>2 DEF NoStaleAttach, client
<1>8. Idle \in Request /\ Idle.pc = "idle"
  BY DEF Idle, Request
<1>9. TypeOK'
  BY <1>1, <1>2, <1>6, <1>7, <1>8 DEF TypeOK, client, collect, rebuild
<1>14. BoundHandles'
  <2> SUFFICES ASSUME NEW h \in Hash, NEW n \in Torrent PROVE mt'[h][n].t <= born'[h]
    BY DEF BoundHandles
  <2>1. born' = born /\ req[c].t <= born[ih]
    BY <1>1, <1>2 DEF client, RequestsFormed
  <2> QED
    BY <1>6, <2>1 DEF BoundHandles
<1>10. HandlesOrdered' /\ ViewsFormed' /\ RequestsFormed'
  BY <1>1, <1>2, <1>8 DEF HandlesOrdered, ViewsFormed, RequestsFormed, client, TypeOK
<1>11. LockExclusive' /\ SnapshotCovers' /\ CommitFormed'
  BY <1>1, <1>4 DEF LockExclusive, WriteLocked, SnapshotCovers, CommitFormed, client, rebuild
<1>12. TorrentsMade'
  <2> SUFFICES ASSUME NEW h \in Hash
               PROVE  made'[h] + Cardinality(Registering(h)') <= MaxTorrent
    BY <1>6 DEF TorrentsMade
  <2>1. CASE h # ih
    <3>1. Registering(h)' = Registering(h)
      BY <1>2, <1>8, <2>1 DEF Registering, TypeOK
    <3>2. made'[h] = made[h]
      BY <2>1 DEF AddRegister, AddReopen, AddNew, TypeOK
    <3> QED
      BY <3>1, <3>2 DEF TorrentsMade
  <2>2. CASE h = ih
    <3>1. c \in Registering(h) /\ Registering(h)' = Registering(h) \ {c}
      BY <1>2, <1>8, <2>2 DEF Registering, TypeOK
    <3>2. Cardinality(Registering(h)') = Cardinality(Registering(h)) - 1
      BY <3>1, RegisteringFinite, FS_RemoveElement
    <3>3. made'[h] = made[h] \/ made'[h] = made[h] + 1
      BY <2>2 DEF AddRegister, AddReopen, AddNew, TypeOK
    <3>4. made[h] \in Nat /\ made[h] + Cardinality(Registering(h)) <= MaxTorrent
      BY DEF TorrentsMade, TypeOK
    <3> QED
      BY <3>2, <3>3, <3>4, RegisteringFinite
  <2> QED
    BY <2>1, <2>2
<1>13. NoStrandedTorrent'
  <2> SUFFICES ASSUME NEW h \in Hash, Tracked(h)'
               PROVE  TrackedMt(h)'.t > epoch'[h]
    BY DEF NoStrandedTorrent
  <2>1. epoch' = epoch
    BY <1>1 DEF client
  <2>2. CASE h # ih
    <3>1. torrents'[h] = torrents[h] /\ torrents[h] \in Torrent
      BY <1>6, <2>2 DEF Tracked, TypeOK, Torrent
    <3>2. TrackedMt(h).t > epoch[h]
      BY <1>4, <3>1 DEF NoStrandedTorrent, WriteLocked, Tracked
    <3>3. mt'[h][torrents[h]] = mt[h][torrents[h]]
      BY <1>6, <2>2, <3>1
    <3> QED
      BY <2>1, <3>1, <3>2, <3>3 DEF TrackedMt
  <2>3. CASE h = ih
    <3>1. TrackedMt(h)'.t = req[c].t
      BY <1>6, <2>3 DEF TrackedMt
    <3> QED
      BY <1>3, <2>1, <2>3, <3>1 DEF TypeOK, Handle
  <2> QED
    BY <2>2, <2>3
<1> QED
  BY <1>7, <1>9, <1>10, <1>11, <1>12, <1>13, <1>14

-----------------------------------------------------------------------------
(* The rebuild.  It holds clientMu, so no waiter is attaching.              *)
LEMMA RebuildQuietIInv ==
  ASSUME IInv, RebuildKeepOld \/ RebuildDone \/ RecoveryExit
  PROVE  IInv'
<1> USE DEF IInv
<1>1. UNCHANGED <<client, registry, req, view, waiters, collect, cur, closer>>
  BY DEF RebuildKeepOld, RebuildDone, RecoveryExit
<1>2. snaps' = {} /\ rebAt' \in {"ticking", "exited"} /\ rebAt # "commit"
  BY DEF RebuildKeepOld, RebuildDone, RecoveryExit, SnapshotCovers
<1>3. TypeOK' /\ LockExclusive' /\ SnapshotCovers' /\ CommitFormed' /\ HandlesOrdered' /\ BoundHandles' /\ ViewsFormed'
  BY <1>1, <1>2 DEF TypeOK, LockExclusive, WriteLocked, SnapshotCovers, CommitFormed,
     HandlesOrdered, BoundHandles, ViewsFormed, client, registry, collect
<1>4. RequestsFormed' /\ \A h \in Hash : Registering(h)' = Registering(h)
  BY <1>1, SameRequests DEF client
<1>5. TorrentsMade'
  BY <1>1, <1>4 DEF TorrentsMade, registry, Registering
<1>6. NoStaleAttach'
  BY <1>1 DEF NoStaleAttach, client
<1>7. NoStrandedTorrent'
  <2>1. rebAt = "readd" => snaps = {}
    BY DEF RebuildKeepOld, RebuildDone, RecoveryExit
  <2> QED
    BY <1>1, <1>2, <2>1 DEF NoStrandedTorrent, Pending, Tracked, TrackedMt, client, registry
<1> QED
  BY <1>3, <1>4, <1>5, <1>6, <1>7

LEMMA RebuildSnapshotIInv ==
  ASSUME IInv, RebuildSnapshot
  PROVE  IInv'
<1> USE DEF IInv
<1>1. UNCHANGED <<client, registry, req, view, waiters, collect, cur, closer>>
  BY DEF RebuildSnapshot
<1> DEFINE Snap(ih) == [ih |-> ih, m |-> torrents[ih], hasInfo |-> TrackedMt(ih).t \in info[ih]]
<1>2. /\ snaps' = {Snap(ih) : ih \in {h \in Hash : Tracked(h)}}
      /\ rebAt' = "snapped" /\ rebAt = "ticking" /\ ~ReadLocked
      /\ \A ih \in Hash : Tracked(ih) => born[ih] < MaxHandle
  BY DEF RebuildSnapshot
<1>3. \A ih \in Hash : Tracked(ih) => Snap(ih) \in Snapshot
  BY DEF Tracked, TypeOK, Torrent, Snapshot
<1>4. snaps' \subseteq Snapshot
  BY <1>2, <1>3
<1>5. /\ \A s \in snaps' : s.ih \in Hash /\ Tracked(s.ih) /\ s = Snap(s.ih)
      /\ \A ih \in Hash : Tracked(ih) => Snap(ih) \in snaps'
  BY <1>2
<1>6. \A ih \in Hash : Snap(ih).ih = ih /\ Snap(ih).m = torrents[ih]
  OBVIOUS
<1> HIDE DEF Snap
<1>7. TypeOK'
  BY <1>1, <1>2, <1>4 DEF TypeOK, client, registry, collect
<1>8. SnapshotCovers'
  BY <1>1, <1>2, <1>5, <1>6 DEF SnapshotCovers, Pending, Tracked, client, registry
<1>9. LockExclusive' /\ CommitFormed' /\ HandlesOrdered' /\ BoundHandles' /\ ViewsFormed' /\ NoStaleAttach'
  BY <1>1, <1>2 DEF LockExclusive, ReadLocked, CommitFormed, HandlesOrdered, BoundHandles,
     ViewsFormed, NoStaleAttach, client, registry
<1>10. RequestsFormed' /\ \A h \in Hash : Registering(h)' = Registering(h)
  BY <1>1, SameRequests DEF client
<1>11. TorrentsMade'
  BY <1>1, <1>10 DEF TorrentsMade, registry, Registering
<1>12. NoStrandedTorrent'
  BY <1>1, <1>2 DEF NoStrandedTorrent, Tracked, TrackedMt, client, registry
<1> QED
  BY <1>7, <1>8, <1>9, <1>10, <1>11, <1>12

(* The old client goes: every handle becomes stale, and the snapshot covers *)
(* every torrent that is still tracked.                                     *)
LEMMA RebuildSwapIInv ==
  ASSUME IInv, RebuildSwap
  PROVE  IInv'
<1> USE DEF IInv
<1>1. UNCHANGED <<born, info, trackers, registry, req, view, waiters, collect, snaps, cur, closer>>
  BY DEF RebuildSwap
<1>2. /\ swarm' = [ih \in Hash |-> 0] /\ epoch' = born
      /\ rebAt = "snapped" /\ rebAt' = "readd"
  BY DEF RebuildSwap
<1>3. ~ReadLocked
  BY <1>2 DEF LockExclusive, WriteLocked
<1>4. TypeOK'
  BY <1>1, <1>2 DEF TypeOK, registry, collect
<1>5. HandlesOrdered' /\ BoundHandles'
  BY <1>1, <1>2 DEF HandlesOrdered, BoundHandles, TypeOK, registry
<1>6. RequestsFormed'
  BY <1>1, <1>3 DEF RequestsFormed, ReadLocked
<1>7. LockExclusive' /\ ViewsFormed' /\ NoStaleAttach'
  BY <1>1, <1>3 DEF LockExclusive, ReadLocked, ViewsFormed, NoStaleAttach
<1>8. TorrentsMade'
  BY <1>1 DEF TorrentsMade, registry, Registering
<1>9. SnapshotCovers' /\ CommitFormed'
  BY <1>1, <1>2 DEF SnapshotCovers, CommitFormed
<1>10. NoStrandedTorrent'
  BY <1>1, <1>2 DEF NoStrandedTorrent, SnapshotCovers, Pending, Tracked, registry
<1> QED
  BY <1>4, <1>5, <1>6, <1>7, <1>8, <1>9, <1>10

LEMMA RebuildReaddIInv ==
  ASSUME IInv, NEW s \in snaps, NEW keepsInfo \in BOOLEAN, RebuildReadd(s, keepsInfo)
  PROVE  IInv'
<1> USE DEF IInv
<1> DEFINE t == born[s.ih] + 1
<1>1. UNCHANGED <<epoch, trackers, registry, req, view, waiters, collect, closer>>
  BY DEF RebuildReadd
<1>2. /\ rebAt = "readd" /\ rebAt' = "commit"
      /\ swarm' = [swarm EXCEPT ![s.ih] = t]
      /\ born' = [born EXCEPT ![s.ih] = t]
      /\ info' = [info EXCEPT ![s.ih] = IF keepsInfo THEN @ \cup {t} ELSE @]
      /\ snaps' = snaps \ {s}
      /\ cur' = [ih |-> s.ih, m |-> s.m, t |-> t]
  BY DEF RebuildReadd
<1>3. s.ih \in Hash /\ s.m \in Torrent /\ t \in Handle /\ epoch[s.ih] < t /\ born[s.ih] < t
  BY DEF TypeOK, Snapshot, SnapshotCovers, HandlesOrdered, Handle
<1>4. [ih |-> s.ih, m |-> s.m, t |-> t] \in Commit
  BY <1>3 DEF Commit, Torrent, Handle
<1>5. ~ReadLocked
  BY <1>2 DEF LockExclusive, WriteLocked
<1> HIDE DEF t
<1>6. TypeOK'
  BY <1>1, <1>2, <1>3, <1>4 DEF TypeOK, Handle, registry, collect
<1>7. HandlesOrdered' /\ BoundHandles'
  <2>1. \A h \in Hash : born[h] <= born'[h]
    <3>1. \A h \in Hash : h # s.ih => born'[h] = born[h]
      BY <1>2
    <3>2. \A h \in Hash : born[h] \in Nat
      BY DEF TypeOK
    <3>3. born'[s.ih] = t
      BY <1>2, <1>3 DEF TypeOK
    <3> QED
      BY <1>3, <3>1, <3>2, <3>3 DEF Handle
  <2>2. HandlesOrdered'
    BY <1>1, <1>2, <1>3 DEF HandlesOrdered, TypeOK, Handle
  <2> QED
    BY <1>1, <1>6, <2>1, <2>2, HandlesGrow DEF registry
<1>8. RequestsFormed'
  BY <1>1, <1>5 DEF RequestsFormed, ReadLocked
<1>9. LockExclusive' /\ ViewsFormed' /\ NoStaleAttach'
  BY <1>1, <1>5 DEF LockExclusive, ReadLocked, ViewsFormed, NoStaleAttach
<1>10. TorrentsMade'
  BY <1>1 DEF TorrentsMade, registry, Registering
<1>11. SnapshotCovers' /\ CommitFormed'
  <2>1. \A u \in snaps' : u \in snaps /\ u.ih # s.ih
    BY <1>2 DEF SnapshotCovers
  <2>2. \A u \in snaps' : u.ih \in Hash
    BY <2>1 DEF TypeOK, Snapshot
  <2>3. \A u \in snaps' : born'[u.ih] < MaxHandle
    BY <1>2, <2>1, <2>2 DEF SnapshotCovers, TypeOK
  <2>4. SnapshotCovers'
    BY <1>2, <2>1, <2>3 DEF SnapshotCovers
  <2>5. CommitFormed'
    BY <1>1, <1>2, <1>3, <2>1 DEF CommitFormed, TypeOK, Handle
  <2> QED
    BY <2>4, <2>5
<1>12. NoStrandedTorrent'
  BY <1>1, <1>2 DEF NoStrandedTorrent, Pending, Tracked, TrackedMt, registry
<1> QED
  BY <1>6, <1>7, <1>8, <1>9, <1>10, <1>11, <1>12

LEMMA RebuildReaddFailsIInv ==
  ASSUME IInv, NEW s \in snaps, RebuildReaddFails(s)
  PROVE  IInv'
<1> USE DEF IInv
<1>1. /\ UNCHANGED <<client, made, req, view, waiters, collect, rebAt, cur, closer>>
      /\ rebAt = "readd" /\ snaps' = snaps \ {s}
  BY DEF RebuildReaddFails
<1>2. s.ih \in Hash /\ s.m \in Torrent
  BY DEF TypeOK, Snapshot
<1>3. /\ torrents' \in [Hash -> 0..MaxTorrent]
      /\ \A h \in Hash : torrents'[h] \in {0, torrents[h]}
      /\ torrents'[s.ih] # s.m
  <2>1. CASE torrents[s.ih] = s.m
    <3>1. torrents' = [torrents EXCEPT ![s.ih] = 0] /\ s.m # 0
      BY <1>2, <2>1 DEF RebuildReaddFails, Torrent
    <3> QED
      BY <1>2, <3>1 DEF TypeOK
  <2>2. CASE torrents[s.ih] # s.m
    BY <1>2, <2>2 DEF RebuildReaddFails, TypeOK
  <2> QED
    BY <2>1, <2>2
<1>4. /\ mt' \in [Hash -> [Torrent -> Managed]]
      /\ \A h \in Hash, n \in Torrent : mt'[h][n].t = mt[h][n].t
  BY <1>2, CancelledMt DEF RebuildReaddFails, TypeOK
<1>5. TypeOK'
  BY <1>1, <1>3, <1>4 DEF TypeOK, client, collect
<1>6. RequestsFormed' /\ \A h \in Hash : Registering(h)' = Registering(h)
  BY <1>1, SameRequests DEF client
<1>7. LockExclusive' /\ ViewsFormed' /\ NoStaleAttach' /\ HandlesOrdered' /\ BoundHandles' /\ CommitFormed'
  BY <1>1, <1>4 DEF BoundHandles, LockExclusive, ReadLocked, WriteLocked, ViewsFormed, NoStaleAttach, HandlesOrdered,
     CommitFormed, client
<1>8. TorrentsMade'
  <2>1. \A h \in Hash : torrents'[h] <= made'[h]
    BY <1>1, <1>3 DEF TorrentsMade, TypeOK
  <2> QED
    BY <1>1, <2>1 DEF TorrentsMade, Registering
<1>9. SnapshotCovers'
  BY <1>1 DEF SnapshotCovers, client
<1>10. NoStrandedTorrent'
  <2> SUFFICES ASSUME NEW h \in Hash, Tracked(h)'
               PROVE  TrackedMt(h)'.t > epoch'[h] \/ Pending(h)'
    BY <1>1 DEF NoStrandedTorrent
  <2>1. torrents'[h] = torrents[h] /\ torrents[h] \in Torrent
    BY <1>3 DEF Tracked, TypeOK, Torrent
  <2>2. TrackedMt(h)'.t = TrackedMt(h).t
    BY <1>4, <2>1 DEF TrackedMt
  <2>3. TrackedMt(h).t > epoch[h] \/ \E u \in snaps : u.ih = h /\ u.m = torrents[h]
    BY <1>1, <2>1 DEF NoStrandedTorrent, Pending, Tracked, Torrent
  <2>4. \A u \in snaps : u.ih = h /\ u.m = torrents[h] => u # s
    BY <1>3, <2>1
  <2> QED
    BY <1>1, <2>1, <2>2, <2>3, <2>4 DEF Pending, client
<1> QED
  BY <1>5, <1>6, <1>7, <1>8, <1>9, <1>10

LEMMA RebuildCommitIInv ==
  ASSUME IInv, RebuildCommit
  PROVE  IInv'
<1> USE DEF IInv
<1>1. UNCHANGED <<born, epoch, info, trackers, torrents, made, req, view, collect, snaps, closer>>
  BY DEF RebuildCommit
<1>2. rebAt = "commit" /\ rebAt' = "readd" /\ cur' = NoCur /\ ~ReadLocked
  BY DEF RebuildCommit, LockExclusive, WriteLocked
<1>3. /\ cur.ih \in Hash /\ cur.m \in Torrent /\ cur.t \in Handle
      /\ epoch[cur.ih] < cur.t /\ NoCur \in Commit
  BY <1>2 DEF CommitFormed, TypeOK, Commit, Handle, NoCur
<1>4. /\ swarm' \in [Hash -> 0..MaxHandle]
      /\ \A h \in Hash : swarm'[h] \in {0, swarm[h]}
  BY <1>3, DroppedSwarm DEF RebuildCommit, TypeOK
<1>5. waiters' \subseteq Waiter /\ ~ReadLocked' /\ NoStaleAttach'
  <2>1. Spawned(cur.ih, cur.m) \in Waiter /\ Spawned(cur.ih, cur.m).pc = "spawned"
    BY <1>3 DEF Spawned, Waiter
  <2>2. waiters' \subseteq waiters \cup {Spawned(cur.ih, cur.m)}
    BY DEF RebuildCommit
  <2> QED
    BY <1>1, <1>2, <2>1, <2>2 DEF ReadLocked, NoStaleAttach, TypeOK
<1>6. /\ mt' \in [Hash -> [Torrent -> Managed]]
      /\ torrents[cur.ih] = cur.m => mt'[cur.ih][cur.m].t = cur.t
      /\ \A h \in Hash, n \in Torrent :
           ~(h = cur.ih /\ n = cur.m /\ torrents[h] = n) => mt'[h][n] = mt[h][n]
  <2>1. CASE torrents[cur.ih] = cur.m
    <3> DEFINE r == [mt[cur.ih][cur.m] EXCEPT !.t = cur.t]
    <3>1. mt[cur.ih][cur.m] \in Managed
      BY <1>3 DEF TypeOK
    <3>2. r \in Managed /\ r.t = cur.t
      BY <1>3, <3>1 DEF Managed, Handle
    <3>3. mt' = Updated(cur.ih, cur.m, r)
      BY <2>1 DEF RebuildCommit
    <3> HIDE DEF r
    <3> QED
      BY <1>3, <2>1, <3>2, <3>3, UpdatedMt DEF TypeOK
  <2>2. CASE torrents[cur.ih] # cur.m
    BY <2>2 DEF RebuildCommit, TypeOK
  <2> QED
    BY <2>1, <2>2
<1>7. TypeOK'
  BY <1>1, <1>2, <1>3, <1>4, <1>5, <1>6 DEF TypeOK, collect
<1>8. HandlesOrdered' /\ BoundHandles'
  <2>1. HandlesOrdered'
    BY <1>1, <1>4 DEF HandlesOrdered, TypeOK
  <2>2. cur.t <= born[cur.ih]
    BY <1>2 DEF CommitFormed
  <2>3. BoundHandles'
    BY <1>1, <1>6, <2>2 DEF BoundHandles
  <2> QED
    BY <2>1, <2>3
<1>9. RequestsFormed' /\ \A h \in Hash : Registering(h)' = Registering(h)
  BY <1>1, SameRequests
<1>10. LockExclusive' /\ ViewsFormed' /\ SnapshotCovers' /\ CommitFormed'
  BY <1>1, <1>2, <1>5 DEF LockExclusive, ViewsFormed, SnapshotCovers, CommitFormed
<1>11. TorrentsMade'
  BY <1>1 DEF TorrentsMade, Registering
<1>12. NoStrandedTorrent'
  <2> SUFFICES ASSUME NEW h \in Hash, Tracked(h)'
               PROVE  TrackedMt(h)'.t > epoch'[h] \/ Pending(h)'
    BY <1>2 DEF NoStrandedTorrent
  <2>1. torrents[h] \in Torrent /\ torrents[h] # 0
    BY <1>1 DEF Tracked, TypeOK, Torrent
  <2>2. CASE h = cur.ih /\ torrents[h] = cur.m
    BY <1>1, <1>3, <1>6, <2>2 DEF TrackedMt, TypeOK, Handle
  <2>3. CASE ~(h = cur.ih /\ torrents[h] = cur.m)
    <3>1. mt'[h][torrents[h]] = mt[h][torrents[h]]
      BY <1>6, <2>1, <2>3
    <3>2. TrackedMt(h).t > epoch[h] \/ \E u \in snaps : u.ih = h /\ u.m = torrents[h]
      BY <2>1, <2>3 DEF NoStrandedTorrent, Pending, Tracked
    <3> QED
      BY <1>1, <3>1, <3>2 DEF TrackedMt, Pending
  <2> QED
    BY <2>2, <2>3
<1> QED
  BY <1>5, <1>7, <1>8, <1>9, <1>10, <1>11, <1>12

-----------------------------------------------------------------------------
(* IInv is inductive, so what it contains is an invariant of the registry.  *)
LEMMA StutterIInv ==
  ASSUME IInv, UNCHANGED vars
  PROVE  IInv'
<1> USE DEF IInv, vars, client, registry, collect, rebuild
<1>1. TypeOK'
  BY DEF TypeOK
<1>2. RequestsFormed' /\ \A h \in Hash : Registering(h)' = Registering(h)
  BY SameRequests
<1>3. LockExclusive' /\ ViewsFormed' /\ NoStaleAttach' /\ HandlesOrdered' /\ BoundHandles' /\ CommitFormed'
  BY DEF BoundHandles, LockExclusive, ReadLocked, WriteLocked, ViewsFormed, NoStaleAttach, HandlesOrdered, CommitFormed
<1>4. TorrentsMade'
  BY DEF TorrentsMade, Registering
<1>5. SnapshotCovers' /\ NoStrandedTorrent'
  BY DEF SnapshotCovers, NoStrandedTorrent, Pending, Tracked, TrackedMt
<1> QED
  BY <1>1, <1>2, <1>3, <1>4, <1>5

LEMMA NextIInv ==
  ASSUME IInv, [Next]_vars
  PROVE  IInv'
<1>1. ASSUME NEW c \in Caller, CallerStep(c) PROVE IInv'
  BY <1>1, AddBindIInv, AddRegisterIInv, RemoveStepIInv DEF CallerStep
<1>2. CASE RebuildStep
  BY <1>2, RebuildSnapshotIInv, RebuildQuietIInv, RebuildSwapIInv, RebuildReaddIInv,
     RebuildReaddFailsIInv, RebuildCommitIInv DEF RebuildStep
<1>3. CASE Exited \/ UNCHANGED vars
  BY <1>3, StutterIInv DEF Exited
<1> QED
  BY <1>1, <1>2, <1>3, ViewerStepIInv, TorrentStepIInv, WaiterStepIInv, GCStepIInv,
     CloseStepIInv DEF Next

(* Type correctness of the registry.                                        *)
THEOREM TypeCorrect == Spec => []TypeOK
<1>1. Spec => []IInv
  BY InitIInv, NextIInv, PTL DEF Spec
<1>2. IInv => TypeOK
  BY DEF IInv
<1> QED
  BY <1>1, <1>2, PTL

(* The inductive invariant: handles are numbered in order, clientMu is      *)
(* exclusive, and a rebuild's snapshot covers the torrents it has to move.  *)
THEOREM Inductive == Spec => []IInv
BY InitIInv, NextIInv, PTL DEF Spec

(* No torrent the registry serves is ever left bound to a closed client.    *)
THEOREM NeverStranded == Spec => []NoStrandedTorrent
<1>1. IInv => NoStrandedTorrent
  BY DEF IInv
<1> QED
  BY <1>1, Inductive, PTL

(* A waiter never announces or drops a handle of a closed client.           *)
THEOREM NeverStaleAttach == Spec => []NoStaleAttach
<1>1. IInv => NoStaleAttach
  BY DEF IInv
<1> QED
  BY <1>1, Inductive, PTL
=============================================================================
