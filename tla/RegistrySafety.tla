--------------------------- MODULE RegistrySafety ---------------------------
(***************************************************************************)
(* What rests on IInv: shutdown, cancellation, viewers and orphans; and    *)
(* that the registry implements Binding, every step of it a step of        *)
(* Binding on the mapped variables or none.                                *)
(***************************************************************************)
EXTENDS RegistryProofs, Play

(* After Close nothing adds a torrent and no rebuild runs.                  *)
ClosedIsQuiet ==
  Closed => ~WriteLocked /\ \A c \in Caller : req[c].pc # "register"

LEMMA InitClosedIsQuiet == Init => ClosedIsQuiet
  BY DEF Init, ClosedIsQuiet, Closed

LEMMA NextClosedIsQuiet ==
  ASSUME IInv, ClosedIsQuiet, [Next]_vars
  PROVE  ClosedIsQuiet'
<1> USE DEF IInv, ClosedIsQuiet
<1>1. ASSUME NEW c \in Caller, CallerStep(c) PROVE ClosedIsQuiet'
  <2>1. /\ UNCHANGED <<rebuild, closer>>
        /\ \A d \in Caller : req'[d].pc = "register" => req[d].pc = "register" \/ ~Closed
    <3>1. ASSUME NEW ih \in Hash, NEW withInfo \in BOOLEAN, AddBind(c, ih, withInfo)
          PROVE  UNCHANGED <<rebuild, closer>> /\ ~Closed
      BY <3>1 DEF AddBind
    <3>2. CASE AddRegister(c) \/ RemoveDrop(c)
      <4>1. req' = [req EXCEPT ![c] = Idle] /\ UNCHANGED <<rebuild, closer>>
        BY <3>2 DEF AddRegister, AddReopen, AddNew, RemoveDrop
      <4> QED
        BY <4>1 DEF Idle, TypeOK
    <3>3. ASSUME NEW ih \in Hash, RemoveForget(c, ih)
          PROVE  /\ UNCHANGED <<rebuild, closer>>
                 /\ \A d \in Caller : req'[d].pc = "register" => req[d].pc = "register"
      BY <3>3 DEF RemoveForget, TypeOK
    <3> QED
      BY <1>1, <3>1, <3>2, <3>3 DEF CallerStep
  <2> QED
    BY <2>1 DEF rebuild, WriteLocked, Closed
<1>2. CASE RebuildStep
  <2>1. UNCHANGED <<req, closer>>
    BY <1>2 DEF RebuildStep, RebuildSnapshot, RebuildKeepOld, RebuildSwap, RebuildReadd,
       RebuildReaddFails, RebuildCommit, RebuildDone, RecoveryExit
  <2>2. WriteLocked' => WriteLocked \/ ~Closed
    BY <1>2 DEF RebuildStep, RebuildSnapshot, RebuildKeepOld, RebuildSwap, RebuildReadd,
       RebuildReaddFails, RebuildCommit, RebuildDone, RecoveryExit, WriteLocked
  <2> QED
    BY <2>1, <2>2 DEF Closed
<1>3. CASE CloseStep
  BY <1>3 DEF CloseStep, CloseCall, CloseSignal, CloseClient, Closed, ReadLocked, WriteLocked, rebuild
<1>4. ASSUME UNCHANGED <<req, rebuild, closer>>
      PROVE  ClosedIsQuiet'
  BY <1>4 DEF rebuild, WriteLocked, Closed
<1>5. ASSUME NEW v \in Viewer, ViewerStep(v) PROVE ClosedIsQuiet'
  BY <1>4, <1>5 DEF ViewerStep, StreamOpen, StreamRegister, StreamEnd
<1>6. ASSUME NEW ih \in Hash, TorrentStep(ih) PROVE ClosedIsQuiet'
  BY <1>4, <1>6 DEF TorrentStep, Pause, Resume, Touch, GoIdle, MetadataArrives
<1>7. ASSUME NEW w \in waiters, WaiterStep(w) PROVE ClosedIsQuiet'
  BY <1>4, <1>7 DEF WaiterStep, WaiterStart, WaiterGotInfo, WaiterAttach, WaiterTimeout,
     WaiterDrop, WaiterQuit
<1>8. CASE GCStep
  BY <1>4, <1>8 DEF GCStep, GCScan, GCDrop, GCExit
<1>9. CASE Exited \/ UNCHANGED vars
  BY <1>4, <1>9 DEF Exited, vars
<1> QED
  BY <1>1, <1>2, <1>3, <1>5, <1>6, <1>7, <1>8, <1>9 DEF Next


-----------------------------------------------------------------------------
LEMMA NextNothingAfterClose ==
  ASSUME IInv, ClosedIsQuiet, NothingAfterClose, [Next]_vars
  PROVE  NothingAfterClose'
<1> SUFFICES ASSUME closer' = "closed"
             PROVE  /\ \A ih \in Hash : swarm'[ih] = 0
                    /\ waiters' = {} /\ ~ReadLocked'
                    /\ gcAt' = "exited" /\ rebAt' = "exited"
  BY DEF NothingAfterClose
<1> USE DEF ClosedIsQuiet, Closed
<1>1. CASE CloseStep
  <2>1. CloseClient
    BY <1>1 DEF CloseStep, CloseCall, CloseSignal
  <2> QED
    BY <2>1 DEF CloseClient, ReadLocked, collect, rebuild
<1>2. CASE ~CloseStep
  <2>1. closer = "closed"
    BY <1>2 DEF Next, CallerStep, AddBind, AddRegister, AddReopen, AddNew, RemoveForget, RemoveDrop,
       ViewerStep, StreamOpen, StreamRegister, StreamEnd, TorrentStep, Pause, Resume, Touch, GoIdle,
       MetadataArrives, WaiterStep, WaiterStart, WaiterGotInfo, WaiterAttach, WaiterTimeout, WaiterDrop,
       WaiterQuit, GCStep, GCScan, GCDrop, GCExit, RebuildStep, RebuildSnapshot, RebuildKeepOld,
       RebuildSwap, RebuildReadd, RebuildReaddFails, RebuildCommit, RebuildDone, RecoveryExit, Exited, vars
  <2>2. /\ \A ih \in Hash : swarm[ih] = 0
        /\ waiters = {} /\ gcAt = "exited" /\ rebAt = "exited"
        /\ \A c \in Caller : req[c].pc # "register"
    BY <2>1 DEF NothingAfterClose
  <2>3. ASSUME NEW c \in Caller, CallerStep(c)
        PROVE  /\ UNCHANGED <<waiters, gcAt, rebAt>>
               /\ \A ih \in Hash : swarm'[ih] = 0
               /\ \A d \in Caller : req'[d].pc # "register"
    <3>1. (\E ih \in Hash : RemoveForget(c, ih)) \/ RemoveDrop(c)
      BY <2>1, <2>2, <2>3 DEF CallerStep, AddBind, AddRegister, AddReopen, AddNew
    <3>2. CASE \E ih \in Hash : RemoveForget(c, ih)
      BY <2>2, <3>2 DEF RemoveForget, client, collect, rebuild, IInv, TypeOK
    <3>3. CASE RemoveDrop(c)
      <4>1. req[c].ih \in Hash
        BY <3>3 DEF RemoveDrop, IInv, RequestsFormed
      <4>2. \A h \in Hash : swarm'[h] \in {0, swarm[h]}
        BY <3>3, <4>1, DroppedSwarm DEF RemoveDrop
      <4> QED
        BY <2>2, <3>3, <4>2 DEF RemoveDrop, Idle, collect, rebuild, IInv, TypeOK
    <3> QED
      BY <3>1, <3>2, <3>3
  <2>4. ASSUME NEW v \in Viewer, ViewerStep(v)
        PROVE  UNCHANGED <<swarm, waiters, gcAt, rebAt, req>>
    BY <2>4 DEF ViewerStep, StreamOpen, StreamRegister, StreamEnd, client, collect, rebuild
  <2>5. ASSUME NEW ih \in Hash, TorrentStep(ih)
        PROVE  UNCHANGED <<swarm, waiters, gcAt, rebAt, req>>
    BY <2>5 DEF TorrentStep, Pause, Resume, Touch, GoIdle, MetadataArrives, client, collect, rebuild
  <2>6. ~GCStep
    BY <2>2 DEF GCStep, GCScan, GCDrop, GCExit
  <2>7. ~RebuildStep
    BY <2>2 DEF RebuildStep, RebuildSnapshot, RebuildKeepOld, RebuildSwap, RebuildReadd,
       RebuildReaddFails, RebuildCommit, RebuildDone, RecoveryExit
  <2>8. CASE Exited \/ UNCHANGED vars
    BY <2>2, <2>8 DEF Exited, vars, client, collect, rebuild, ReadLocked
  <2>9. ASSUME UNCHANGED <<swarm, waiters, gcAt, rebAt, req>>
        PROVE  /\ \A ih \in Hash : swarm'[ih] = 0
               /\ waiters' = {} /\ ~ReadLocked'
               /\ gcAt' = "exited" /\ rebAt' = "exited"
    BY <2>2, <2>9 DEF ReadLocked
  <2>10. CASE \E c \in Caller : CallerStep(c)
    BY <2>2, <2>3, <2>10 DEF ReadLocked
  <2> QED
    BY <1>2, <2>2, <2>4, <2>5, <2>6, <2>7, <2>8, <2>9, <2>10 DEF Next
<1> QED
  BY <1>1, <1>2

(* Once Close has closed the client, no session, goroutine or pinned Add is *)
(* left, and none comes back.                                               *)
THEOREM QuietAfterClose == Spec => []NothingAfterClose
<1>1. Init => NothingAfterClose
  BY DEF Init, NothingAfterClose
<1> QED
  BY <1>1, InitIInv, NextIInv, InitClosedIsQuiet, NextClosedIsQuiet, NextNothingAfterClose, PTL DEF Spec

-----------------------------------------------------------------------------
(* Cancellation, one group of steps at a time.  A step keeps the invariant  *)
(* when whatever it leaves warm was warm before, and what it forgets or     *)
(* stops dropping is covered.                                               *)
LEMMA CancelledNotWarm ==
  ASSUME IInv, NEW ih \in Hash, NEW m \in Torrent, mt' = Cancelled(ih, m),
         NEW h \in Hash, NEW n \in Torrent, mt'[h][n].warm
  PROVE  ~(h = ih /\ n = m) /\ mt[h][n].warm
<1>1. mt \in [Hash -> [Torrent -> Managed]] /\ mt[ih][m] \in Managed
  BY DEF IInv, TypeOK
<1>2. [mt[ih][m] EXCEPT !.warm = FALSE].warm = FALSE
  BY <1>1 DEF Managed
<1>3. CASE h = ih /\ n = m
  BY <1>1, <1>2, <1>3 DEF Cancelled, Updated
<1>4. CASE ~(h = ih /\ n = m)
  BY <1>1, <1>4 DEF Cancelled, Updated
<1> QED
  BY <1>3, <1>4

LEMMA CallerForgotten ==
  ASSUME IInv, ForgottenIsCancelled, NEW c \in Caller, CallerStep(c)
  PROVE  ForgottenIsCancelled'
<1> USE DEF IInv
<1> SUFFICES ASSUME NEW h \in Hash, NEW n \in Torrent, mt'[h][n].warm
             PROVE  torrents'[h] = n \/ BeingDropped(h, n)'
  BY DEF ForgottenIsCancelled
<1>1. ASSUME NEW ih \in Hash, NEW withInfo \in BOOLEAN, AddBind(c, ih, withInfo)
      PROVE  torrents'[h] = n \/ BeingDropped(h, n)'
  BY <1>1 DEF AddBind, ForgottenIsCancelled, BeingDropped, registry, collect, TypeOK
<1>2. CASE AddReopen(c)
  <2>1. req[c].pc = "register" /\ req[c].ih \in Hash /\ torrents' = torrents /\ evicted' = evicted
    BY <1>2 DEF AddReopen, RequestsFormed, collect
  <2>2. CASE h = req[c].ih /\ n = torrents[h]
    BY <2>1, <2>2
  <2>3. CASE ~(h = req[c].ih /\ n = torrents[h])
    <3>1. mt'[h][n] = mt[h][n]
      BY <1>2, <2>1, <2>3 DEF AddReopen, Updated, TypeOK
    <3>2. \A d \in Caller : req[d].pc = "drop" => req'[d] = req[d]
      BY <1>2, <2>1 DEF AddReopen, TypeOK
    <3>3. waiters \subseteq waiters'
      BY <1>2 DEF AddReopen
    <3> QED
      BY <2>1, <3>1, <3>2, <3>3 DEF ForgottenIsCancelled, BeingDropped
  <2> QED
    BY <2>2, <2>3
<1>3. CASE AddNew(c)
  <2>1. req[c].pc = "register" /\ req[c].ih \in Hash /\ torrents[req[c].ih] = 0 /\ evicted' = evicted
    BY <1>3 DEF AddNew, RequestsFormed, collect, Tracked
  <2>2. torrents' = [torrents EXCEPT ![req[c].ih] = made[req[c].ih] + 1]
    BY <1>3 DEF AddNew
  <2>3. CASE h = req[c].ih /\ n = made[h] + 1
    BY <2>1, <2>2, <2>3 DEF TypeOK
  <2>4. CASE ~(h = req[c].ih /\ n = made[h] + 1)
    <3>1. mt'[h][n] = mt[h][n]
      BY <1>3, <2>1, <2>4 DEF AddNew, Updated, TypeOK
    <3>2. \A d \in Caller : req[d].pc = "drop" => req'[d] = req[d]
      BY <1>3, <2>1 DEF AddNew, TypeOK
    <3>3. waiters \subseteq waiters'
      BY <1>3 DEF AddNew
    <3>4. torrents[h] = n => torrents'[h] = n
      BY <2>1, <2>2 DEF TypeOK, Torrent
    <3> QED
      BY <2>1, <3>1, <3>2, <3>3, <3>4 DEF ForgottenIsCancelled, BeingDropped
  <2> QED
    BY <2>3, <2>4
<1>4. ASSUME NEW ih \in Hash, RemoveForget(c, ih)
      PROVE  torrents'[h] = n \/ BeingDropped(h, n)'
  <2>1. /\ UNCHANGED <<mt, waiters, evicted>> /\ req[c].pc = "idle"
        /\ torrents' = [torrents EXCEPT ![ih] = 0]
        /\ req' = [req EXCEPT ![c] = [pc |-> "drop", ih |-> ih, m |-> torrents[ih], t |-> 0]]
    BY <1>4 DEF RemoveForget, collect
  <2>2. CASE torrents[h] = n /\ h = ih
    BY <2>1, <2>2 DEF BeingDropped, TypeOK
  <2>3. CASE ~(torrents[h] = n /\ h = ih)
    <3>1. torrents[h] = n \/ BeingDropped(h, n)
      BY <2>1 DEF ForgottenIsCancelled
    <3>2. torrents[h] = n => torrents'[h] = n
      BY <2>1, <2>3 DEF TypeOK
    <3>3. \A d \in Caller : req[d].pc = "drop" => req'[d] = req[d]
      BY <2>1 DEF TypeOK
    <3> QED
      BY <2>1, <3>1, <3>2, <3>3 DEF BeingDropped
  <2> QED
    BY <2>2, <2>3
<1>5. CASE RemoveDrop(c)
  <2>1. /\ req[c].ih \in Hash /\ req[c].m \in Torrent
        /\ UNCHANGED <<torrents, waiters, evicted>>
        /\ req' = [req EXCEPT ![c] = Idle] /\ mt' = Cancelled(req[c].ih, req[c].m)
    BY <1>5 DEF RemoveDrop, RequestsFormed, collect
  <2>2. ~(h = req[c].ih /\ n = req[c].m) /\ mt[h][n].warm
    BY <2>1, CancelledNotWarm
  <2>3. torrents[h] = n \/ BeingDropped(h, n)
    BY <2>2 DEF ForgottenIsCancelled
  <2>4. ASSUME NEW d \in Caller, req[d].pc = "drop", req[d].ih = h, req[d].m = n
        PROVE  req'[d] = req[d]
    BY <2>1, <2>2, <2>4 DEF TypeOK
  <2> QED
    BY <2>1, <2>3, <2>4 DEF BeingDropped
<1> QED
  BY <1>1, <1>2, <1>3, <1>4, <1>5 DEF CallerStep, AddRegister

LEMMA OtherForgotten ==
  ASSUME IInv, ForgottenIsCancelled, UNCHANGED <<torrents, req, waiters, evicted>>,
         \A h \in Hash, n \in Torrent : mt'[h][n].warm => mt[h][n].warm \/ torrents[h] = n
  PROVE  ForgottenIsCancelled'
BY DEF ForgottenIsCancelled, BeingDropped

LEMMA WaiterForgotten ==
  ASSUME IInv, ForgottenIsCancelled, NEW w \in waiters, WaiterStep(w)
  PROVE  ForgottenIsCancelled'
<1> USE DEF IInv
<1> SUFFICES ASSUME NEW h \in Hash, NEW n \in Torrent, mt'[h][n].warm
             PROVE  torrents'[h] = n \/ BeingDropped(h, n)'
  BY DEF ForgottenIsCancelled
<1>1. UNCHANGED <<req, evicted>> /\ w \in Waiter
  BY DEF WaiterStep, WaiterStart, WaiterGotInfo, WaiterAttach, WaiterTimeout, WaiterDrop,
     WaiterQuit, collect, TypeOK
<1>2. CASE WaiterDrop(w)
  <2>1. /\ UNCHANGED torrents /\ w.pc = "drop"
        /\ mt' = Cancelled(w.ih, w.m) /\ waiters' = waiters \ {w}
    BY <1>2 DEF WaiterDrop, Others
  <2>2. ~(h = w.ih /\ n = w.m) /\ mt[h][n].warm
    BY <1>1, <2>1, CancelledNotWarm DEF Waiter
  <2> QED
    BY <1>1, <2>1, <2>2 DEF ForgottenIsCancelled, BeingDropped
<1>3. CASE WaiterTimeout(w)
  <2>1. mt' = mt /\ w.pc = "waiting"
    BY <1>3 DEF WaiterTimeout
  <2>2. CASE IsCurrent(w.ih, w.m, w.t)
    <3>1. /\ torrents' = [torrents EXCEPT ![w.ih] = 0] /\ torrents[w.ih] = w.m
          /\ waiters' = (waiters \ {w}) \cup {[w EXCEPT !.pc = "drop"]}
      BY <1>3, <2>2 DEF WaiterTimeout, IsCurrent, Others
    <3>2. /\ [w EXCEPT !.pc = "drop"].pc = "drop"
          /\ [w EXCEPT !.pc = "drop"].ih = w.ih /\ [w EXCEPT !.pc = "drop"].m = w.m
      BY <1>1 DEF Waiter
    <3>3. CASE h = w.ih /\ n = w.m
      BY <3>1, <3>2, <3>3 DEF BeingDropped
    <3>4. CASE ~(h = w.ih /\ n = w.m)
      <4>1. torrents[h] = n \/ BeingDropped(h, n)
        BY <2>1 DEF ForgottenIsCancelled
      <4>2. torrents[h] = n => torrents'[h] = n
        BY <3>1, <3>4 DEF TypeOK
      <4>3. \A u \in waiters : u.pc = "drop" => u \in waiters'
        BY <2>1, <3>1
      <4> QED
        BY <1>1, <4>1, <4>2, <4>3 DEF BeingDropped
    <3> QED
      BY <3>3, <3>4
  <2>3. CASE ~IsCurrent(w.ih, w.m, w.t)
    BY <1>1, <1>3, <2>1, <2>3 DEF WaiterTimeout, Others, ForgottenIsCancelled, BeingDropped
  <2> QED
    BY <2>2, <2>3
<1>4. CASE ~WaiterDrop(w) /\ ~WaiterTimeout(w)
  <2>1. torrents' = torrents /\ mt' = mt /\ w.pc # "drop" /\ Others(w) \subseteq waiters'
    BY <1>4 DEF WaiterStep, WaiterStart, WaiterGotInfo, WaiterAttach, WaiterQuit, registry
  <2> QED
    BY <1>1, <2>1 DEF ForgottenIsCancelled, BeingDropped, Others
<1> QED
  BY <1>2, <1>3, <1>4

(* Between two scans the collector has nothing left to drop.                *)
EvictedWhileDropping == gcAt # "dropping" => evicted = {}

LEMMA NextEvictedWhileDropping ==
  ASSUME EvictedWhileDropping, [Next]_vars
  PROVE  EvictedWhileDropping'
<1>1. CASE GCStep
  BY <1>1 DEF GCStep, GCScan, GCDrop, GCExit, EvictedWhileDropping
<1>2. CASE ~GCStep
  <2>1. UNCHANGED collect
    BY <1>2 DEF Next, CallerStep, AddBind, AddRegister, AddReopen, AddNew, RemoveForget, RemoveDrop,
       ViewerStep, StreamOpen, StreamRegister, StreamEnd, TorrentStep, Pause, Resume, Touch, GoIdle,
       MetadataArrives, WaiterStep, WaiterStart, WaiterGotInfo, WaiterAttach, WaiterTimeout, WaiterDrop,
       WaiterQuit, RebuildStep, RebuildSnapshot, RebuildKeepOld, RebuildSwap, RebuildReadd,
       RebuildReaddFails, RebuildCommit, RebuildDone, RecoveryExit, CloseStep, CloseCall, CloseSignal,
       CloseClient, Exited, vars
  <2> QED
    BY <2>1 DEF collect, EvictedWhileDropping
<1> QED
  BY <1>1, <1>2

LEMMA GCForgotten ==
  ASSUME IInv, EvictedWhileDropping, ForgottenIsCancelled, GCStep
  PROVE  ForgottenIsCancelled'
<1> USE DEF IInv
<1> SUFFICES ASSUME NEW h \in Hash, NEW n \in Torrent, mt'[h][n].warm
             PROVE  torrents'[h] = n \/ BeingDropped(h, n)'
  BY DEF ForgottenIsCancelled
<1>1. UNCHANGED <<req, waiters>>
  BY DEF GCStep, GCScan, GCDrop, GCExit
<1>2. CASE GCScan
  <2> DEFINE e == [ih |-> h, m |-> torrents[h], t |-> TrackedMt(h).t]
  <2>1. mt' = mt /\ evicted = {}
    BY <1>2 DEF GCScan, EvictedWhileDropping
  <2>2. torrents[h] = n \/ BeingDropped(h, n)
    BY <2>1 DEF ForgottenIsCancelled
  <2>3. CASE torrents[h] # n
    BY <1>1, <2>1, <2>2, <2>3 DEF BeingDropped
  <2>4. CASE torrents[h] = n /\ h \in Evictable
    <3>1. e \in evicted'
      BY <1>2, <2>4 DEF GCScan
    <3>2. e.ih = h /\ e.m = n
      BY <2>4
    <3> HIDE DEF e
    <3> QED
      BY <3>1, <3>2 DEF BeingDropped
  <2>5. CASE torrents[h] = n /\ h \notin Evictable
    BY <1>2, <2>5 DEF GCScan
  <2> QED
    BY <2>3, <2>4, <2>5
<1>3. ASSUME NEW d \in evicted, GCDrop(d)
      PROVE  torrents'[h] = n \/ BeingDropped(h, n)'
  <2>1. /\ torrents' = torrents /\ evicted' = evicted \ {d} /\ mt' = Cancelled(d.ih, d.m)
        /\ d.ih \in Hash /\ d.m \in Torrent
    BY <1>3 DEF GCDrop, TypeOK, Eviction
  <2>2. ~(h = d.ih /\ n = d.m) /\ mt[h][n].warm
    BY <2>1, CancelledNotWarm
  <2> QED
    BY <1>1, <2>1, <2>2 DEF ForgottenIsCancelled, BeingDropped
<1>4. CASE GCExit
  BY <1>1, <1>4 DEF GCExit, registry, ForgottenIsCancelled, BeingDropped
<1> QED
  BY <1>2, <1>3, <1>4 DEF GCStep

LEMMA RebuildForgotten ==
  ASSUME IInv, ForgottenIsCancelled, RebuildStep
  PROVE  ForgottenIsCancelled'
<1> USE DEF IInv
<1>1. UNCHANGED <<req, evicted>>
  BY DEF RebuildStep, RebuildSnapshot, RebuildKeepOld, RebuildSwap, RebuildReadd,
     RebuildReaddFails, RebuildCommit, RebuildDone, RecoveryExit, collect
<1>2. ASSUME NEW s \in snaps, RebuildReaddFails(s)
      PROVE  ForgottenIsCancelled'
  <2>1. s.ih \in Hash /\ s.m \in Torrent /\ waiters' = waiters
    BY <1>2 DEF RebuildReaddFails, TypeOK, Snapshot
  <2> SUFFICES ASSUME NEW h \in Hash, NEW n \in Torrent, mt'[h][n].warm
               PROVE  torrents'[h] = n \/ BeingDropped(h, n)'
    BY DEF ForgottenIsCancelled
  <2>2. CASE torrents[s.ih] = s.m
    <3>1. torrents' = [torrents EXCEPT ![s.ih] = 0] /\ mt' = Cancelled(s.ih, s.m)
      BY <1>2, <2>2 DEF RebuildReaddFails
    <3>2. ~(h = s.ih /\ n = s.m) /\ mt[h][n].warm
      BY <2>1, <3>1, CancelledNotWarm
    <3> QED
      <4>1. torrents[h] = n \/ BeingDropped(h, n)
        BY <3>2 DEF ForgottenIsCancelled
      <4>2. torrents[h] = n => torrents'[h] = n
        BY <2>1, <2>2, <3>1, <3>2 DEF TypeOK
      <4> QED
        BY <1>1, <2>1, <4>1, <4>2 DEF BeingDropped
  <2>3. CASE torrents[s.ih] # s.m
    BY <1>1, <1>2, <2>1, <2>3 DEF RebuildReaddFails, ForgottenIsCancelled, BeingDropped
  <2> QED
    BY <2>2, <2>3
<1>3. CASE RebuildCommit
  <2>1. torrents' = torrents /\ waiters \subseteq waiters'
    BY <1>3 DEF RebuildCommit
  <2>2. \A h \in Hash, n \in Torrent : mt'[h][n].warm => mt[h][n].warm
    <3>1. CASE torrents[cur.ih] = cur.m
      <4>1. /\ mt' = Updated(cur.ih, cur.m, [mt[cur.ih][cur.m] EXCEPT !.t = cur.t])
            /\ cur.ih \in Hash /\ cur.m \in Torrent
        BY <1>3, <3>1 DEF RebuildCommit, CommitFormed
      <4>2. [mt[cur.ih][cur.m] EXCEPT !.t = cur.t].warm = mt[cur.ih][cur.m].warm
        BY <4>1 DEF TypeOK, Managed
      <4> QED
        BY <4>1, <4>2 DEF Updated, TypeOK
    <3>2. CASE torrents[cur.ih] # cur.m
      BY <1>3, <3>2 DEF RebuildCommit
    <3> QED
      BY <3>1, <3>2
  <2> QED
    BY <1>1, <2>1, <2>2 DEF ForgottenIsCancelled, BeingDropped
<1>4. ASSUME UNCHANGED <<torrents, mt, waiters>>
      PROVE  ForgottenIsCancelled'
  BY <1>1, <1>4, OtherForgotten
<1>5. CASE ~RebuildCommit /\ ~(\E s \in snaps : RebuildReaddFails(s))
  <2>1. UNCHANGED <<torrents, mt, waiters>>
    BY <1>5 DEF RebuildStep, RebuildSnapshot, RebuildKeepOld, RebuildSwap, RebuildReadd,
       RebuildDone, RecoveryExit, registry
  <2> QED
    BY <1>4, <2>1
<1> QED
  BY <1>2, <1>3, <1>5

LEMMA NextForgotten ==
  ASSUME IInv, EvictedWhileDropping, ForgottenIsCancelled, [Next]_vars
  PROVE  ForgottenIsCancelled'
<1> USE DEF IInv
<1>1. ASSUME NEW v \in Viewer, ViewerStep(v) PROVE ForgottenIsCancelled'
  <2>1. UNCHANGED <<torrents, req, waiters, evicted>>
    BY <1>1 DEF ViewerStep, StreamOpen, StreamRegister, StreamEnd, registry, collect
  <2>2. \A h \in Hash, n \in Torrent : mt'[h][n].warm => mt[h][n].warm
    <3>1. CASE \E ih \in Hash : StreamOpen(v, ih)
      BY <3>1 DEF StreamOpen, registry
    <3>2. CASE StreamRegister(v) \/ StreamEnd(v)
      <4>1. view[v].ih \in Hash /\ view[v].m \in Torrent
        BY <3>2 DEF StreamRegister, StreamEnd, ViewsFormed
      <4>2. Viewed(v) \in Managed /\ Viewed(v) = mt[view[v].ih][view[v].m]
        BY <4>1 DEF TypeOK, Viewed
      <4>3. PICK r \in Managed : r.warm = Viewed(v).warm /\ mt' = Updated(view[v].ih, view[v].m, r)
        BY <3>2, <4>2 DEF StreamRegister, StreamEnd, Managed
      <4> SUFFICES ASSUME NEW h \in Hash, NEW n \in Torrent, mt'[h][n].warm
                   PROVE  mt[h][n].warm
        OBVIOUS
      <4>4. CASE h = view[v].ih /\ n = view[v].m
        BY <4>1, <4>2, <4>3, <4>4 DEF Updated, TypeOK
      <4>5. CASE ~(h = view[v].ih /\ n = view[v].m)
        BY <4>1, <4>3, <4>5 DEF Updated, TypeOK
      <4> QED
        BY <4>4, <4>5
    <3> QED
      BY <1>1, <3>1, <3>2 DEF ViewerStep
  <2> QED
    BY <2>1, <2>2, OtherForgotten
<1>2. ASSUME NEW ih \in Hash, TorrentStep(ih) PROVE ForgottenIsCancelled'
  <2>1. UNCHANGED <<torrents, req, waiters, evicted>>
    BY <1>2 DEF TorrentStep, Pause, Resume, Touch, GoIdle, MetadataArrives, registry, collect
  <2>2. \A h \in Hash, n \in Torrent : mt'[h][n].warm => mt[h][n].warm \/ torrents[h] = n
    BY <1>2 DEF TorrentStep, Pause, Resume, Touch, GoIdle, MetadataArrives, registry, Updated, TypeOK
  <2> QED
    BY <2>1, <2>2, OtherForgotten
<1>3. CASE CloseStep
  <2>1. UNCHANGED <<torrents, req, waiters, evicted>>
    BY <1>3 DEF CloseStep, CloseCall, CloseSignal, CloseClient, registry, collect
  <2>2. \A h \in Hash, n \in Torrent : mt'[h][n].warm => mt[h][n].warm
    <3>1. CASE CloseSignal
      <4>1. \A h \in Hash, n \in Torrent : [mt[h][n] EXCEPT !.warm = FALSE].warm = FALSE
        <5> SUFFICES ASSUME NEW h \in Hash, NEW n \in Torrent
                     PROVE  [mt[h][n] EXCEPT !.warm = FALSE].warm = FALSE
          OBVIOUS
        <5>1. mt[h][n] \in Managed
          BY DEF TypeOK
        <5> QED
          BY <5>1 DEF Managed
      <4> QED
        BY <3>1, <4>1 DEF CloseSignal
    <3>2. CASE CloseCall \/ CloseClient
      BY <3>2 DEF CloseCall, CloseClient, registry
    <3> QED
      BY <1>3, <3>1, <3>2 DEF CloseStep
  <2> QED
    BY <2>1, <2>2, OtherForgotten
<1>4. CASE Exited \/ UNCHANGED vars
  BY <1>4, OtherForgotten DEF Exited, vars, registry, collect
<1> QED
  BY <1>1, <1>2, <1>3, <1>4, CallerForgotten, WaiterForgotten, GCForgotten, RebuildForgotten DEF Next

(* Every way of dropping a torrent stops its warmers.                       *)
THEOREM DropCancels == Spec => []ForgottenIsCancelled
<1>1. Init => ForgottenIsCancelled /\ EvictedWhileDropping
  BY DEF Init, ForgottenIsCancelled, EvictedWhileDropping
<1> QED
  BY <1>1, InitIInv, NextIInv, NextEvictedWhileDropping, NextForgotten, PTL DEF Spec

-----------------------------------------------------------------------------
(* Viewers.  A viewer holds a managedTorrent that was made, and one that is *)
(* reading is registered with it.                                           *)
ViewersCounted ==
  \A v \in Viewer : view[v].pc # "idle" =>
    /\ view[v].m <= made[view[v].ih]
    /\ view[v].pc = "reading" => v \in Viewed(v).readers

(* Changing a managedTorrent, but not its readers.                          *)
LEMMA SameReaders ==
  ASSUME IInv, NEW ih \in Hash, NEW m \in Torrent, NEW r \in Managed,
         r.readers = mt[ih][m].readers, mt' = Updated(ih, m, r)
  PROVE  \A h \in Hash, n \in Torrent : mt'[h][n].readers = mt[h][n].readers
<1>1. mt \in [Hash -> [Torrent -> Managed]]
  BY DEF IInv, TypeOK
<1>2. /\ mt'[ih][m] = r
      /\ \A h \in Hash, n \in Torrent : h # ih \/ n # m => mt'[h][n] = mt[h][n]
  BY <1>1, UpdatedMt
<1> QED
  BY <1>2

LEMMA CancelledReaders ==
  ASSUME IInv, NEW ih \in Hash, NEW m \in Torrent, mt' = Cancelled(ih, m)
  PROVE  \A h \in Hash, n \in Torrent : mt'[h][n].readers = mt[h][n].readers
<1> DEFINE r == [mt[ih][m] EXCEPT !.warm = FALSE]
<1>1. mt[ih][m] \in Managed
  BY DEF IInv, TypeOK
<1>2. r \in Managed /\ r.readers = mt[ih][m].readers
  BY <1>1 DEF Managed
<1>3. mt' = Updated(ih, m, r)
  BY DEF Cancelled
<1> HIDE DEF r
<1> QED
  BY <1>2, <1>3, SameReaders

(* A step that leaves the viewers alone, and the readers of what was made.  *)
LEMMA OthersKeepViewers ==
  ASSUME IInv, ViewersCounted, view' = view,
         \A h \in Hash : made[h] <= made'[h] /\ made'[h] \in Nat,
         \A h \in Hash, n \in Torrent :
           n <= made[h] => mt'[h][n].readers = mt[h][n].readers
  PROVE  ViewersCounted'
<1> SUFFICES ASSUME NEW v \in Viewer, view[v].pc # "idle"
             PROVE  /\ view[v].m <= made'[view[v].ih]
                    /\ view[v].pc = "reading" => v \in mt'[view[v].ih][view[v].m].readers
  BY DEF ViewersCounted, Viewed
<1>1. view[v].ih \in Hash /\ view[v].m \in Torrent
  BY DEF IInv, ViewsFormed
<1>2. made[view[v].ih] \in Nat /\ view[v].m \in Nat
  BY <1>1 DEF IInv, TypeOK, Torrent
<1> QED
  BY <1>1, <1>2 DEF ViewersCounted, Viewed

LEMMA CallerKeepsReaders ==
  ASSUME IInv, NEW c \in Caller, CallerStep(c)
  PROVE  /\ view' = view
         /\ \A h \in Hash : made[h] <= made'[h] /\ made'[h] \in Nat
         /\ \A h \in Hash, n \in Torrent :
              n <= made[h] => mt'[h][n].readers = mt[h][n].readers
<1> USE DEF IInv
<1> DEFINE ih == req[c].ih
<1>1. \A h \in Hash : made[h] \in Nat
  BY DEF TypeOK
<1>2. CASE (\E i \in Hash, b \in BOOLEAN : AddBind(c, i, b)) \/ (\E i \in Hash : RemoveForget(c, i))
  BY <1>1, <1>2 DEF AddBind, RemoveForget, registry
<1>3. CASE AddReopen(c)
  <2> DEFINE r == ResumeLocked(mt[ih][torrents[ih]], req[c].t)
  <2>1. ih \in Hash /\ torrents[ih] \in Torrent /\ req[c].t \in 0..MaxHandle
    BY <1>3 DEF AddReopen, RequestsFormed, Tracked, TypeOK, Torrent, Request
  <2>2. r \in Managed /\ r.readers = mt[ih][torrents[ih]].readers
    <3>1. mt[ih][torrents[ih]] \in Managed
      BY <2>1 DEF TypeOK
    <3> QED
      BY <2>1, <3>1 DEF ResumeLocked, Managed, Closed
  <2>3. mt' = Updated(ih, torrents[ih], r) /\ view' = view /\ made' = made
    BY <1>3 DEF AddReopen
  <2> HIDE DEF r, ih
  <2> QED
    BY <1>1, <2>1, <2>2, <2>3, SameReaders
<1>4. CASE AddNew(c)
  <2>1. /\ ih \in Hash /\ view' = view
        /\ made' = [made EXCEPT ![ih] = made[ih] + 1]
        /\ mt' = Updated(ih, made[ih] + 1, Fresh(req[c].t))
    BY <1>4 DEF AddNew, RequestsFormed
  <2>2. \A h \in Hash, n \in Torrent : n <= made[h] => mt'[h][n] = mt[h][n]
    BY <1>1, <2>1 DEF Updated, TypeOK, Torrent
  <2> QED
    BY <1>1, <2>1, <2>2 DEF TypeOK
<1>5. CASE RemoveDrop(c)
  <2>1. /\ ih \in Hash /\ req[c].m \in Torrent /\ UNCHANGED <<view, made>>
        /\ mt' = Cancelled(ih, req[c].m)
    BY <1>5 DEF RemoveDrop, RequestsFormed
  <2> QED
    BY <1>1, <2>1, CancelledReaders
<1> QED
  BY <1>2, <1>3, <1>4, <1>5 DEF CallerStep, AddRegister

(* The steps of everything but requests and viewers.                        *)
LEMMA EngineKeepsReaders ==
  ASSUME IInv,
         \/ \E ih \in Hash : TorrentStep(ih)
         \/ \E w \in waiters : WaiterStep(w)
         \/ GCStep \/ RebuildStep \/ CloseStep
  PROVE  /\ UNCHANGED <<view, made>>
         /\ \A h \in Hash, n \in Torrent : mt'[h][n].readers = mt[h][n].readers
<1> USE DEF IInv
<1>1. ASSUME NEW ih \in Hash, TorrentStep(ih)
      PROVE  /\ UNCHANGED <<view, made>>
             /\ \A h \in Hash, n \in Torrent : mt'[h][n].readers = mt[h][n].readers
  <2>1. CASE MetadataArrives(ih)
    BY <2>1 DEF MetadataArrives, registry
  <2>2. CASE ~MetadataArrives(ih)
    <3>4. Tracked(ih)
      BY <1>1, <2>2 DEF TorrentStep, Pause, Resume, Touch, GoIdle
    <3>1. torrents[ih] \in Torrent /\ TrackedMt(ih) \in Managed
      <4>1. torrents[ih] \in Torrent
        BY <3>4 DEF TypeOK, Tracked, Torrent
      <4>2. mt \in [Hash -> [Torrent -> Managed]]
        BY DEF TypeOK
      <4> HIDE DEF IInv
      <4> QED
        BY <4>1, <4>2 DEF TrackedMt
    <3>2. PICK r \in Managed : r.readers = TrackedMt(ih).readers /\ mt' = Updated(ih, torrents[ih], r)
      BY <1>1, <2>2, <3>1 DEF TorrentStep, Pause, Resume, Touch, GoIdle, ResumeLocked, Managed, Closed
    <3>3. UNCHANGED <<view, made>>
      BY <1>1, <2>2 DEF TorrentStep, Pause, Resume, Touch, GoIdle
    <3> QED
      BY <3>1, <3>2, <3>3, SameReaders DEF TrackedMt
  <2> QED
    BY <2>1, <2>2
<1>2. ASSUME NEW w \in waiters, WaiterStep(w)
      PROVE  /\ UNCHANGED <<view, made>>
             /\ \A h \in Hash, n \in Torrent : mt'[h][n].readers = mt[h][n].readers
  <2>1. CASE WaiterDrop(w)
    BY <2>1, CancelledReaders DEF WaiterDrop, TypeOK, Waiter
  <2>2. CASE ~WaiterDrop(w)
    BY <1>2, <2>2 DEF WaiterStep, WaiterStart, WaiterGotInfo, WaiterAttach, WaiterTimeout,
       WaiterQuit, registry
  <2> QED
    BY <2>1, <2>2
<1>3. CASE GCStep
  <2>1. ASSUME NEW d \in evicted, GCDrop(d)
        PROVE  /\ UNCHANGED <<view, made>>
               /\ \A h \in Hash, n \in Torrent : mt'[h][n].readers = mt[h][n].readers
    BY <2>1, CancelledReaders DEF GCDrop, TypeOK, Eviction
  <2>2. CASE GCScan \/ GCExit
    BY <2>2 DEF GCScan, GCExit, registry
  <2> QED
    BY <1>3, <2>1, <2>2 DEF GCStep
<1>4. CASE RebuildStep
  <2>1. ASSUME NEW s \in snaps, RebuildReaddFails(s)
        PROVE  \A h \in Hash, n \in Torrent : mt'[h][n].readers = mt[h][n].readers
    BY <2>1, CancelledReaders DEF RebuildReaddFails, TypeOK, Snapshot
  <2>2. ASSUME RebuildCommit
        PROVE  \A h \in Hash, n \in Torrent : mt'[h][n].readers = mt[h][n].readers
    <3>1. CASE torrents[cur.ih] = cur.m
      <4> DEFINE r == [mt[cur.ih][cur.m] EXCEPT !.t = cur.t]
      <4>1. /\ cur.ih \in Hash /\ cur.m \in Torrent /\ cur.t \in 0..MaxHandle
            /\ mt[cur.ih][cur.m] \in Managed
        BY <2>2 DEF RebuildCommit, CommitFormed, TypeOK, Commit
      <4>2. r \in Managed /\ r.readers = mt[cur.ih][cur.m].readers
        BY <4>1 DEF Managed
      <4>3. mt' = Updated(cur.ih, cur.m, r)
        BY <2>2, <3>1 DEF RebuildCommit
      <4> HIDE DEF r, IInv
      <4> QED
        BY <4>1, <4>2, <4>3, SameReaders
    <3>2. CASE torrents[cur.ih] # cur.m
      BY <2>2, <3>2 DEF RebuildCommit
    <3> QED
      BY <3>1, <3>2
  <2>3. CASE ~RebuildCommit /\ ~(\E s \in snaps : RebuildReaddFails(s))
    BY <1>4, <2>3 DEF RebuildStep, RebuildSnapshot, RebuildKeepOld, RebuildSwap, RebuildReadd,
       RebuildDone, RecoveryExit, registry
  <2>4. UNCHANGED <<view, made>>
    BY <1>4 DEF RebuildStep, RebuildSnapshot, RebuildKeepOld, RebuildSwap, RebuildReadd,
       RebuildReaddFails, RebuildCommit, RebuildDone, RecoveryExit, registry
  <2> QED
    BY <2>1, <2>2, <2>3, <2>4
<1>5. CASE CloseStep
  <2>1. CASE CloseSignal
    <3>1. ASSUME NEW h \in Hash, NEW n \in Torrent
          PROVE  mt'[h][n].readers = mt[h][n].readers
      <4>1. mt[h][n] \in Managed /\ mt'[h][n] = [mt[h][n] EXCEPT !.warm = FALSE]
        BY <2>1 DEF CloseSignal, TypeOK
      <4> QED
        BY <4>1 DEF Managed
    <3> QED
      BY <2>1, <3>1 DEF CloseSignal
  <2>2. CASE CloseCall \/ CloseClient
    BY <2>2 DEF CloseCall, CloseClient, registry
  <2> QED
    BY <1>5, <2>1, <2>2 DEF CloseStep
<1> QED
  BY <1>1, <1>2, <1>3, <1>4, <1>5

(* A viewer changes its own registration only.                              *)
LEMMA ViewerCounted ==
  ASSUME IInv, ViewersCounted, NEW v \in Viewer, ViewerStep(v)
  PROVE  ViewersCounted'
<1> USE DEF IInv
<1>1. made' = made /\ \A u \in Viewer : u # v => view'[u] = view[u]
  BY DEF ViewerStep, StreamOpen, StreamRegister, StreamEnd, registry, TypeOK
<1>2. \A h \in Hash, n \in Torrent, u \in Viewer :
        u # v /\ u \in mt[h][n].readers => u \in mt'[h][n].readers
  <2>1. CASE \E ih \in Hash : StreamOpen(v, ih)
    BY <2>1 DEF StreamOpen, registry
  <2>2. CASE StreamRegister(v) \/ StreamEnd(v)
    <3>1. view[v].ih \in Hash /\ view[v].m \in Torrent /\ Viewed(v) \in Managed
      BY <2>2 DEF StreamRegister, StreamEnd, ViewsFormed, TypeOK, Viewed
    <3>2. PICK r \in Managed : /\ mt' = Updated(view[v].ih, view[v].m, r)
                               /\ \A u \in Viewer : u # v /\ u \in Viewed(v).readers => u \in r.readers
      <4>1. CASE StreamRegister(v)
        <5> DEFINE r == [Viewed(v) EXCEPT !.readers = @ \cup {v}, !.idle = FALSE]
        <5>1. r \in Managed /\ Viewed(v).readers \subseteq r.readers
          BY <3>1 DEF Managed
        <5>2. mt' = Updated(view[v].ih, view[v].m, r)
          BY <4>1 DEF StreamRegister
        <5> HIDE DEF r, IInv
        <5> QED
          BY <5>1, <5>2
      <4>2. CASE StreamEnd(v)
        <5> DEFINE r == [Viewed(v) EXCEPT !.readers = @ \ {v}, !.idle = FALSE]
        <5>1. r \in Managed /\ Viewed(v).readers \ {v} \subseteq r.readers
          BY <3>1 DEF Managed
        <5>2. mt' = Updated(view[v].ih, view[v].m, r)
          BY <4>2 DEF StreamEnd
        <5> HIDE DEF r, IInv
        <5> QED
          BY <5>1, <5>2
      <4> QED
        BY <2>2, <4>1, <4>2
    <3>3. /\ mt'[view[v].ih][view[v].m] = r
          /\ \A h \in Hash, n \in Torrent :
               h # view[v].ih \/ n # view[v].m => mt'[h][n] = mt[h][n]
      <4>1. mt \in [Hash -> [Torrent -> Managed]]
        BY DEF TypeOK
      <4> HIDE DEF IInv
      <4> QED
        BY <3>1, <3>2, <4>1, UpdatedMt
    <3> HIDE DEF IInv
    <3> QED
      BY <3>2, <3>3 DEF Viewed
  <2> QED
    BY <2>1, <2>2 DEF ViewerStep
<1>3. ASSUME NEW u \in Viewer, u # v, view'[u].pc # "idle"
      PROVE  /\ view'[u].m <= made'[view'[u].ih]
             /\ view'[u].pc = "reading" => u \in mt'[view'[u].ih][view'[u].m].readers
  BY <1>1, <1>2, <1>3 DEF ViewersCounted, ViewsFormed, Viewed
<1>4. ASSUME view'[v].pc # "idle"
      PROVE  /\ view'[v].m <= made'[view'[v].ih]
             /\ view'[v].pc = "reading" => v \in mt'[view'[v].ih][view'[v].m].readers
  <2>1. ASSUME NEW ih \in Hash, StreamOpen(v, ih)
        PROVE  view'[v].m <= made'[view'[v].ih] /\ view'[v].pc # "reading"
    BY <1>1, <2>1 DEF StreamOpen, TorrentsMade, TypeOK
  <2>2. CASE StreamRegister(v)
    <3>1. /\ view[v].ih \in Hash /\ view[v].m \in Torrent /\ Viewed(v) \in Managed
          /\ view[v] \in Viewing
      BY <2>2 DEF StreamRegister, ViewsFormed, TypeOK, Viewed
    <3>2. view'[v] = [view[v] EXCEPT !.pc = "reading"]
      BY <2>2 DEF StreamRegister, TypeOK
    <3>3. view'[v].ih = view[v].ih /\ view'[v].m = view[v].m
      BY <3>1, <3>2 DEF Viewing
    <3> DEFINE r == [Viewed(v) EXCEPT !.readers = @ \cup {v}, !.idle = FALSE]
    <3>4. r \in Managed /\ v \in r.readers
      BY <3>1 DEF Managed
    <3>5. mt' = Updated(view[v].ih, view[v].m, r)
      BY <2>2 DEF StreamRegister
    <3> HIDE DEF r
    <3>6. mt'[view[v].ih][view[v].m] = r
      BY <3>1, <3>4, <3>5, UpdatedMt DEF TypeOK
    <3> QED
      BY <1>1, <2>2, <3>3, <3>4, <3>6 DEF StreamRegister, ViewersCounted
  <2>3. ~StreamEnd(v)
    BY <1>4 DEF StreamEnd, Away, TypeOK
  <2> QED
    BY <2>1, <2>2, <2>3 DEF ViewerStep
<1> QED
  BY <1>3, <1>4 DEF ViewersCounted, Viewed

LEMMA NextViewersCounted ==
  ASSUME IInv, ViewersCounted, [Next]_vars
  PROVE  ViewersCounted'
<1>1. \A h \in Hash : made[h] \in Nat
  BY DEF IInv, TypeOK
<1>2. ASSUME UNCHANGED <<view, made>>,
             \A h \in Hash, n \in Torrent : mt'[h][n].readers = mt[h][n].readers
      PROVE  ViewersCounted'
  BY <1>1, <1>2, OthersKeepViewers
<1>3. ASSUME NEW c \in Caller, CallerStep(c) PROVE ViewersCounted'
  BY <1>3, CallerKeepsReaders, OthersKeepViewers
<1>4. CASE UNCHANGED vars
  BY <1>2, <1>4 DEF vars, registry
<1> QED
  BY <1>2, <1>3, <1>4, EngineKeepsReaders, ViewerCounted DEF Next, Exited

(* The collector forgets a torrent only when nobody streams it.             *)
THEOREM ViewersSpared == Spec => CollectorSparesViewers
<1>1. Init => ViewersCounted
  BY DEF Init, ViewersCounted, Away
<1>2. ASSUME IInv, ViewersCounted, [Next]_vars, NEW v \in Viewer,
             view[v].pc = "reading", torrents[view[v].ih] = view[v].m
      PROVE  torrents'[view[v].ih] = torrents[view[v].ih] \/ gcAt' = gcAt
  <2>1. view[v].ih \in Hash /\ view[v].ih \notin Evictable
    BY <1>2 DEF IInv, ViewsFormed, ViewersCounted, Viewed, Evictable, TrackedMt
  <2>2. CASE GCScan
    BY <2>1, <2>2 DEF GCScan
  <2>3. CASE ~GCScan
    <3>1. gcAt' = gcAt \/ UNCHANGED torrents
      <4>1. CASE GCStep
        BY <2>3, <4>1 DEF GCStep, GCDrop, GCExit, registry
      <4>2. CASE ~GCStep
        BY <1>2, <4>2 DEF Next, vars, collect, CallerStep, AddBind, AddRegister, AddReopen, AddNew,
           RemoveForget, RemoveDrop, ViewerStep, StreamOpen, StreamRegister, StreamEnd,
           TorrentStep, Pause, Resume, Touch, GoIdle, MetadataArrives,
           WaiterStep, WaiterStart, WaiterGotInfo, WaiterAttach, WaiterTimeout, WaiterDrop, WaiterQuit,
           RebuildStep, RebuildSnapshot, RebuildKeepOld, RebuildSwap, RebuildReadd,
           RebuildReaddFails, RebuildCommit, RebuildDone, RecoveryExit,
           CloseStep, CloseCall, CloseSignal, CloseClient, Exited
      <4> QED
        BY <4>1, <4>2
    <3> QED
      BY <3>1
  <2> QED
    BY <2>2, <2>3
<1>3. IInv /\ ViewersCounted /\ [Next]_vars
        => [\A v \in Viewer :
              LET ih == view[v].ih
              IN view[v].pc = "reading" /\ torrents[ih] = view[v].m
                 => torrents'[ih] = torrents[ih] \/ gcAt' = gcAt]_vars
  BY <1>2
<1> QED
  BY <1>1, <1>3, InitIInv, NextIInv, NextViewersCounted, PTL DEF Spec, CollectorSparesViewers

-----------------------------------------------------------------------------
(* Orphans.  The client has the last handle it made for an infohash, or     *)
(* none; what a rebuild has still to visit has none, and the handle to be   *)
(* committed is the last; what a Remove forgot is not what is tracked now.  *)
HandlesLast    == \A ih \in Hash : swarm[ih] \in {0, born[ih]}
SnapsUnbound   == rebAt \in {"readd", "commit"} => \A s \in snaps : swarm[s.ih] = 0
CommitLast     == rebAt = "commit" => cur.t = born[cur.ih]
DropsForgotten == \A c \in Caller : req[c].pc = "drop" =>
                    req[c].m # torrents[req[c].ih] /\ req[c].m <= made[req[c].ih]

OInv == HandlesLast /\ SnapsUnbound /\ CommitLast /\ DropsForgotten /\ EvictedWhileDropping

(* A step that makes no handle and moves no rebuild on.                     *)
LEMMA KeepsLast ==
  ASSUME IInv, OInv, born' = born, snaps' \subseteq snaps,
         rebAt' \in {"readd", "commit"} => rebAt \in {"readd", "commit"},
         rebAt' = "commit" => rebAt = "commit" /\ cur' = cur,
         \A ih \in Hash : swarm'[ih] \in {0, swarm[ih]}
  PROVE  HandlesLast' /\ SnapsUnbound' /\ CommitLast'
BY DEF OInv, HandlesLast, SnapsUnbound, CommitLast, IInv, TypeOK, Snapshot

LEMMA KeepsForgotten ==
  ASSUME IInv, OInv, made' = made,
         \A c \in Caller : req'[c].pc = "drop" => req'[c] = req[c],
         \A ih \in Hash : torrents'[ih] \in {0, torrents[ih]}
  PROVE  DropsForgotten'
<1> SUFFICES ASSUME NEW c \in Caller, req'[c].pc = "drop"
             PROVE  req[c].m # torrents'[req[c].ih] /\ req[c].m <= made[req[c].ih]
  BY DEF DropsForgotten
<1>1. /\ req[c].ih \in Hash /\ req[c].m \in Torrent
      /\ req[c].m # torrents[req[c].ih] /\ req[c].m <= made[req[c].ih]
  BY DEF OInv, DropsForgotten, IInv, RequestsFormed
<1> QED
  BY <1>1 DEF Torrent

LEMMA CallerOInv ==
  ASSUME IInv, OInv, NEW c \in Caller, CallerStep(c)
  PROVE  HandlesLast' /\ SnapsUnbound' /\ CommitLast' /\ DropsForgotten'
<1> USE DEF IInv
<1>0. rebAt' = rebAt /\ snaps' = snaps /\ cur' = cur
  BY DEF CallerStep, AddBind, AddRegister, AddReopen, AddNew, RemoveForget, RemoveDrop, rebuild
<1>1. ASSUME NEW ih \in Hash, NEW withInfo \in BOOLEAN, AddBind(c, ih, withInfo)
      PROVE  HandlesLast' /\ SnapsUnbound' /\ CommitLast' /\ DropsForgotten'
  <2>1. /\ ~WriteLocked /\ made' = made /\ torrents' = torrents
        /\ \A d \in Caller : req'[d].pc = "drop" => req'[d] = req[d]
    BY <1>1 DEF AddBind, registry, TypeOK
  <2>2. HandlesLast'
    BY <1>1 DEF AddBind, OInv, HandlesLast, TypeOK
  <2>3. DropsForgotten'
    BY <2>1, KeepsForgotten
  <2> QED
    BY <1>0, <2>1, <2>2, <2>3 DEF WriteLocked, SnapsUnbound, CommitLast
<1>2. CASE AddReopen(c)
  <2>1. /\ made' = made /\ torrents' = torrents /\ born' = born /\ swarm' = swarm
        /\ \A d \in Caller : req'[d].pc = "drop" => req'[d] = req[d]
    BY <1>2 DEF AddReopen, client, Idle, TypeOK
  <2> QED
    BY <1>0, <2>1, KeepsLast, KeepsForgotten
<1>3. CASE AddNew(c)
  <2>1. /\ req[c].ih \in Hash /\ born' = born /\ swarm' = swarm
        /\ made' = [made EXCEPT ![req[c].ih] = made[req[c].ih] + 1]
        /\ torrents' = [torrents EXCEPT ![req[c].ih] = made[req[c].ih] + 1]
        /\ \A d \in Caller : req'[d].pc = "drop" => req'[d] = req[d]
    BY <1>3 DEF AddNew, client, Idle, RequestsFormed, TypeOK
  <2>2. DropsForgotten'
    <3> SUFFICES ASSUME NEW d \in Caller, req'[d].pc = "drop"
                 PROVE  req[d].m # torrents'[req[d].ih] /\ req[d].m <= made'[req[d].ih]
      BY <2>1 DEF DropsForgotten
    <3>1. /\ req[d].ih \in Hash /\ req[d].m \in Torrent
          /\ req[d].m # torrents[req[d].ih] /\ req[d].m <= made[req[d].ih]
      BY <2>1 DEF OInv, DropsForgotten, RequestsFormed
    <3>2. made[req[d].ih] \in Nat
      BY <3>1 DEF TypeOK
    <3> QED
      BY <2>1, <3>1, <3>2 DEF TypeOK, Torrent
  <2> QED
    BY <1>0, <2>1, <2>2, KeepsLast
<1>4. ASSUME NEW ih \in Hash, RemoveForget(c, ih)
      PROVE  HandlesLast' /\ SnapsUnbound' /\ CommitLast' /\ DropsForgotten'
  <2>1. /\ made' = made /\ born' = born /\ swarm' = swarm
        /\ torrents[ih] # 0 /\ torrents' = [torrents EXCEPT ![ih] = 0]
        /\ req' = [req EXCEPT ![c] = [pc |-> "drop", ih |-> ih, m |-> torrents[ih], t |-> 0]]
    BY <1>4 DEF RemoveForget, client, Tracked
  <2>2. DropsForgotten'
    <3> SUFFICES ASSUME NEW d \in Caller, req'[d].pc = "drop"
                 PROVE  req'[d].m # torrents'[req'[d].ih] /\ req'[d].m <= made'[req'[d].ih]
      BY DEF DropsForgotten
    <3>1. CASE d = c
      BY <2>1, <3>1 DEF TypeOK, TorrentsMade
    <3>2. CASE d # c
      <4>1. /\ req'[d] = req[d] /\ req[d].ih \in Hash /\ req[d].m \in Torrent
            /\ req[d].m # torrents[req[d].ih] /\ req[d].m <= made[req[d].ih]
        BY <2>1, <3>2 DEF OInv, DropsForgotten, RequestsFormed, TypeOK
      <4> QED
        BY <2>1, <4>1 DEF TypeOK, Torrent
    <3> QED
      BY <3>1, <3>2
  <2> QED
    BY <1>0, <2>1, <2>2, KeepsLast
<1>5. CASE RemoveDrop(c)
  <2>1. /\ made' = made /\ torrents' = torrents /\ born' = born /\ req[c].ih \in Hash
        /\ \A d \in Caller : req'[d].pc = "drop" => req'[d] = req[d]
    BY <1>5 DEF RemoveDrop, Idle, RequestsFormed, TypeOK
  <2>2. \A ih \in Hash : swarm'[ih] \in {0, swarm[ih]}
    BY <1>5, <2>1, DroppedSwarm DEF RemoveDrop
  <2> QED
    BY <1>0, <2>1, <2>2, KeepsLast, KeepsForgotten
<1> QED
  BY <1>1, <1>2, <1>3, <1>4, <1>5 DEF CallerStep, AddRegister

LEMMA RebuildOInv ==
  ASSUME IInv, OInv, RebuildStep
  PROVE  HandlesLast' /\ SnapsUnbound' /\ CommitLast' /\ DropsForgotten'
<1> USE DEF IInv
<1>1. req' = req /\ made' = made
  BY DEF RebuildStep, RebuildSnapshot, RebuildKeepOld, RebuildSwap, RebuildReadd,
     RebuildReaddFails, RebuildCommit, RebuildDone, RecoveryExit, registry
<1>2. \A ih \in Hash : torrents'[ih] \in {0, torrents[ih]}
  <2>1. ASSUME NEW s \in snaps, RebuildReaddFails(s)
        PROVE  \A ih \in Hash : torrents'[ih] \in {0, torrents[ih]}
    BY <2>1 DEF RebuildReaddFails, TypeOK
  <2> QED
    BY <2>1 DEF RebuildStep, RebuildSnapshot, RebuildKeepOld, RebuildSwap, RebuildReadd,
       RebuildCommit, RebuildDone, RecoveryExit, registry
<1>3. DropsForgotten'
  BY <1>1, <1>2, KeepsForgotten
<1>4. CASE RebuildSnapshot \/ RebuildKeepOld \/ RebuildDone \/ RecoveryExit
  <2>1. swarm' = swarm /\ born' = born /\ rebAt' \notin {"readd", "commit"}
    BY <1>4 DEF RebuildSnapshot, RebuildKeepOld, RebuildDone, RecoveryExit, client
  <2> QED
    BY <1>3, <2>1 DEF OInv, HandlesLast, SnapsUnbound, CommitLast
<1>5. CASE RebuildSwap
  BY <1>3, <1>5 DEF RebuildSwap, HandlesLast, SnapsUnbound, CommitLast, TypeOK, Snapshot
<1>6. ASSUME NEW s \in snaps, NEW keepsInfo \in BOOLEAN, RebuildReadd(s, keepsInfo)
      PROVE  HandlesLast' /\ SnapsUnbound' /\ CommitLast'
  <2>1. /\ rebAt = "readd" /\ snaps' = snaps \ {s} /\ s.ih \in Hash
        /\ swarm' = [swarm EXCEPT ![s.ih] = born[s.ih] + 1]
        /\ born' = [born EXCEPT ![s.ih] = born[s.ih] + 1]
        /\ cur' = [ih |-> s.ih, m |-> s.m, t |-> born[s.ih] + 1]
    BY <1>6 DEF RebuildReadd, TypeOK, Snapshot
  <2>2. HandlesLast' /\ CommitLast'
    BY <2>1 DEF OInv, HandlesLast, CommitLast, TypeOK
  <2>3. \A u \in snaps' : u.ih # s.ih /\ u.ih \in Hash /\ swarm[u.ih] = 0
    BY <2>1 DEF OInv, SnapsUnbound, SnapshotCovers, TypeOK, Snapshot
  <2> QED
    BY <2>1, <2>2, <2>3 DEF SnapsUnbound, TypeOK
<1>7. ASSUME NEW s \in snaps, RebuildReaddFails(s)
      PROVE  HandlesLast' /\ SnapsUnbound' /\ CommitLast'
  <2>1. /\ swarm' = swarm /\ born' = born /\ rebAt' = rebAt /\ cur' = cur /\ snaps' \subseteq snaps
    BY <1>7 DEF RebuildReaddFails, client
  <2> QED
    BY <2>1, KeepsLast
<1>8. CASE RebuildCommit
  <2>1. /\ born' = born /\ rebAt = "commit" /\ rebAt' = "readd" /\ snaps' = snaps /\ cur.ih \in Hash
        /\ swarm' = swarm \/ swarm' = Dropped(cur.ih, cur.t)
    BY <1>8 DEF RebuildCommit, CommitFormed
  <2>2. \A ih \in Hash : swarm'[ih] \in {0, swarm[ih]}
    BY <2>1, DroppedSwarm
  <2> QED
    BY <1>3, <2>1, <2>2, KeepsLast
<1> QED
  BY <1>3, <1>4, <1>5, <1>6, <1>7, <1>8 DEF RebuildStep

LEMMA NextOInv ==
  ASSUME IInv, OInv, [Next]_vars
  PROVE  OInv'
<1>1. EvictedWhileDropping'
  BY NextEvictedWhileDropping DEF OInv
<1>2. ASSUME born' = born, made' = made, req' = req, rebAt' = rebAt, snaps' = snaps, cur' = cur,
             \A ih \in Hash : swarm'[ih] \in {0, swarm[ih]},
             \A ih \in Hash : torrents'[ih] \in {0, torrents[ih]}
      PROVE  HandlesLast' /\ SnapsUnbound' /\ CommitLast' /\ DropsForgotten'
  <2>1. HandlesLast' /\ SnapsUnbound' /\ CommitLast'
    BY <1>2, KeepsLast
  <2>2. DropsForgotten'
    BY <1>2, KeepsForgotten
  <2> QED
    BY <2>1, <2>2
<1>3. ASSUME NEW v \in Viewer, ViewerStep(v)
      PROVE  UNCHANGED <<born, made, req, rebuild, swarm, torrents>>
  BY <1>3 DEF ViewerStep, StreamOpen, StreamRegister, StreamEnd, client, registry
<1>4. ASSUME NEW ih \in Hash, TorrentStep(ih)
      PROVE  UNCHANGED <<born, made, req, rebuild, swarm, torrents>>
  BY <1>4 DEF TorrentStep, Pause, Resume, Touch, GoIdle, MetadataArrives, client, registry
<1>5. ASSUME NEW w \in waiters, WaiterStep(w)
      PROVE  HandlesLast' /\ SnapsUnbound' /\ CommitLast' /\ DropsForgotten'
  <2>1. UNCHANGED <<born, made, req, rebAt, snaps, cur>>
    BY <1>5 DEF WaiterStep, WaiterStart, WaiterGotInfo, WaiterAttach, WaiterTimeout, WaiterDrop,
       WaiterQuit, client, registry, rebuild
  <2> QED
    BY <1>2, <1>5, <2>1, WaiterHandles
<1>6. CASE GCStep
  <2>1. /\ UNCHANGED <<born, made, req, rebAt, snaps, cur>>
        /\ \A ih \in Hash : torrents'[ih] \in {0, torrents[ih]}
    BY <1>6 DEF GCStep, GCScan, GCDrop, GCExit, client, registry, rebuild
  <2>2. \A ih \in Hash : swarm'[ih] \in {0, swarm[ih]}
    <3>1. ASSUME NEW d \in evicted, GCDrop(d) PROVE \A ih \in Hash : swarm'[ih] \in {0, swarm[ih]}
      BY <3>1, DroppedSwarm DEF GCDrop, IInv, TypeOK, Eviction
    <3> QED
      BY <1>6, <3>1 DEF GCStep, GCScan, GCExit, client
  <2> QED
    BY <1>1, <1>2, <2>1, <2>2 DEF OInv
<1>7. CASE CloseStep
  <2>1. /\ UNCHANGED <<born, made, req, rebAt, snaps, cur, torrents>>
        /\ \A ih \in Hash : swarm'[ih] \in {0, swarm[ih]}
    BY <1>7 DEF CloseStep, CloseCall, CloseSignal, CloseClient, client, registry, rebuild
  <2> QED
    BY <1>1, <1>2, <2>1 DEF OInv
<1>8. CASE Exited \/ UNCHANGED vars \/ (\E v \in Viewer : ViewerStep(v)) \/ (\E ih \in Hash : TorrentStep(ih))
  <2>1. UNCHANGED <<born, made, req, rebAt, snaps, cur, torrents, swarm>>
    BY <1>3, <1>4, <1>8 DEF Exited, vars, client, registry, rebuild
  <2> QED
    BY <1>1, <1>2, <2>1 DEF OInv
<1> QED
  BY <1>1, <1>5, <1>6, <1>7, <1>8, CallerOInv, RebuildOInv DEF Next, OInv

-----------------------------------------------------------------------------
(* The owner of a session stays, or hands the session on.                   *)
CallerOwns(c, ih) ==
  req[c].ih = ih /\ \/ req[c].pc = "register" /\ req[c].t = swarm[ih]
                    \/ req[c].pc = "drop" /\ mt[ih][req[c].m].t = swarm[ih]

LEMMA SameOwners ==
  ASSUME IInv, OInv, NEW ih \in Hash, Owned(ih), swarm'[ih] = swarm[ih],
         Tracked(ih) /\ TrackedMt(ih).t = swarm[ih] => torrents'[ih] = torrents[ih],
         \A m \in Torrent : m <= made[ih] => mt'[ih][m].t = mt[ih][m].t,
         \A c \in Caller : CallerOwns(c, ih) => req'[c] = req[c],
         \A d \in evicted : d.ih = ih /\ d.t = swarm[ih] => d \in evicted',
         \A w \in waiters : w.pc = "drop" /\ w.ih = ih /\ w.t = swarm[ih] => w \in waiters',
         rebAt = "commit" /\ cur.ih = ih => rebAt' = "commit" /\ cur' = cur
  PROVE  Owned(ih)'
<1>1. CASE Tracked(ih) /\ TrackedMt(ih).t = swarm[ih]
  <2>1. torrents[ih] \in Torrent /\ torrents[ih] <= made[ih]
    BY <1>1 DEF IInv, TypeOK, TorrentsMade, Tracked, Torrent
  <2> QED
    BY <1>1, <2>1 DEF Owned, Tracked, TrackedMt
<1>2. ASSUME NEW c \in Caller, CallerOwns(c, ih) PROVE Owned(ih)'
  <2>1. CASE req[c].pc = "register"
    BY <1>2, <2>1 DEF CallerOwns, Owned
  <2>2. CASE req[c].pc = "drop"
    <3>1. req[c].m \in Torrent /\ req[c].m <= made[ih]
      BY <1>2, <2>2 DEF CallerOwns, IInv, RequestsFormed, OInv, DropsForgotten
    <3> QED
      BY <1>2, <2>2, <3>1 DEF CallerOwns, Owned
  <2> QED
    BY <1>2, <2>1, <2>2 DEF CallerOwns
<1>3. CASE \E d \in evicted : d.ih = ih /\ d.t = swarm[ih]
  BY <1>3 DEF Owned
<1>4. CASE \E w \in waiters : w.pc = "drop" /\ w.ih = ih /\ w.t = swarm[ih]
  BY <1>4 DEF Owned
<1>5. CASE rebAt = "commit" /\ cur.ih = ih /\ cur.t = swarm[ih]
  BY <1>5 DEF Owned
<1> QED
  BY <1>1, <1>2, <1>3, <1>4, <1>5 DEF Owned, CallerOwns

(* Add, and Remove.                                                         *)
LEMMA CallerOrphans ==
  ASSUME IInv, OInv, NEW c \in Caller, CallerStep(c), NEW h \in Hash, ~Orphan(h), Orphan(h)'
  PROVE  RacedAdd(h)
<1> USE DEF IInv
<1>0. /\ swarm'[h] # 0 /\ ~Owned(h)'
      /\ evicted' = evicted /\ rebAt' = rebAt /\ cur' = cur /\ waiters \subseteq waiters'
  BY DEF Orphan, CallerStep, AddBind, AddRegister, AddReopen, AddNew, RemoveForget, RemoveDrop,
     collect, rebuild
<1>1. ASSUME NEW ih \in Hash, NEW withInfo \in BOOLEAN, AddBind(c, ih, withInfo)
      PROVE  FALSE
  <2>1. /\ req[c].pc = "idle" /\ torrents' = torrents /\ mt' = mt
        /\ \A d \in Caller : d # c => req'[d] = req[d]
        /\ \A g \in Hash : g # ih => swarm'[g] = swarm[g]
    BY <1>1 DEF AddBind, registry, TypeOK
  <2>2. /\ req'[c].pc = "register" /\ req'[c].ih = ih /\ req'[c].t = swarm'[ih]
    BY <1>1 DEF AddBind, TypeOK
  <2>3. CASE h = ih
    BY <1>0, <2>2, <2>3 DEF Owned
  <2>4. CASE h # ih
    <3>1. swarm'[h] = swarm[h] /\ Owned(h)
      BY <1>0, <2>1, <2>4 DEF Orphan
    <3>2. \A d \in Caller : CallerOwns(d, h) => req'[d] = req[d]
      BY <2>1 DEF CallerOwns
    <3> QED
      BY <1>0, <2>1, <3>1, <3>2, SameOwners
  <2> QED
    BY <2>3, <2>4
<1>2. CASE AddReopen(c)
  <2> DEFINE ih == req[c].ih
  <2>1. /\ req[c].pc = "register" /\ ih \in Hash /\ torrents[ih] \in Torrent /\ torrents[ih] # 0
        /\ swarm' = swarm /\ torrents' = torrents /\ req' = [req EXCEPT ![c] = Idle]
        /\ mt' = Updated(ih, torrents[ih], ResumeLocked(mt[ih][torrents[ih]], req[c].t))
    BY <1>2 DEF AddReopen, client, RequestsFormed, Tracked, TypeOK, Torrent
  <2>2. Owned(h)
    BY <1>0, <2>1 DEF Orphan
  <2>3. CASE h = ih /\ req[c].t = swarm[ih]
    <3>1. mt'[ih][torrents[ih]].t = req[c].t
      BY <2>1 DEF Updated, ResumeLocked, TypeOK, Managed
    <3> QED
      BY <1>0, <2>1, <2>3, <3>1 DEF Owned, Tracked, TrackedMt
  <2>4. CASE h = ih /\ req[c].t # swarm[ih]
    <3>1. swarm[ih] = born[ih] /\ req[c].t <= born[ih]
      BY <1>0, <2>1, <2>4 DEF OInv, HandlesLast, RequestsFormed
    <3>2. req[c].t \in Nat /\ born[ih] \in Nat
      BY <2>1 DEF TypeOK, Request
    <3>3. req[c].t < swarm[ih]
      BY <2>4, <3>1, <3>2
    <3>4. req'[c].pc = "idle"
      BY <2>1 DEF Idle, TypeOK
    <3> QED
      BY <2>1, <2>4, <3>3, <3>4 DEF RacedAdd, Tracked
  <2>5. CASE h # ih
    <3>1. mt'[h] = mt[h]
      BY <2>1, <2>5 DEF Updated, TypeOK
    <3>2. \A d \in Caller : CallerOwns(d, h) => req'[d] = req[d]
      BY <2>1, <2>5 DEF CallerOwns, TypeOK
    <3> QED
      BY <1>0, <2>1, <2>2, <3>1, <3>2, SameOwners
  <2> QED
    BY <2>3, <2>4, <2>5
<1>3. CASE AddNew(c)
  <2> DEFINE ih == req[c].ih
             m  == made[ih] + 1
  <2>1. /\ req[c].pc = "register" /\ ih \in Hash /\ torrents[ih] = 0 /\ made[ih] \in Nat
        /\ swarm' = swarm /\ torrents' = [torrents EXCEPT ![ih] = m]
        /\ req' = [req EXCEPT ![c] = Idle] /\ mt' = Updated(ih, m, Fresh(req[c].t))
    BY <1>3 DEF AddNew, client, RequestsFormed, Tracked, TypeOK
  <2>2. Owned(h)
    BY <1>0, <2>1 DEF Orphan
  <2>3. CASE h = ih /\ req[c].t = swarm[ih]
    <3>1. m \in Torrent /\ torrents'[ih] = m /\ m # 0
      <4>1. TypeOK' /\ made'[ih] = m
        BY <1>3, <2>1, AddRegisterIInv DEF AddNew, AddRegister, TypeOK
      <4>2. m \in 0..MaxTorrent /\ torrents'[ih] = m
        BY <2>1, <4>1 DEF TypeOK
      <4> QED
        BY <2>1, <4>2, BoundsAssumption DEF Torrent
    <3>2. mt'[ih][m].t = req[c].t
      BY <2>1, <3>1 DEF Updated, Fresh, TypeOK
    <3> QED
      BY <1>0, <2>1, <2>3, <3>1, <3>2 DEF Owned, Tracked, TrackedMt
  <2>4. CASE h # ih \/ req[c].t # swarm[ih]
    <3>1. \A k \in Torrent : k <= made[h] => mt'[h][k].t = mt[h][k].t
      <4>1. \A k \in Torrent : k <= made[ih] => k # m
        BY <2>1 DEF Torrent
      <4> QED
        BY <2>1, <4>1 DEF Updated, TypeOK
    <3>2. \A d \in Caller : CallerOwns(d, h) => req'[d] = req[d]
      BY <2>1, <2>4 DEF CallerOwns, TypeOK
    <3>3. Tracked(h) => torrents'[h] = torrents[h]
      BY <2>1 DEF Tracked, TypeOK
    <3> HIDE DEF ih, m
    <3> QED
      BY <1>0, <2>1, <2>2, <3>1, <3>2, <3>3, SameOwners
  <2> QED
    BY <2>3, <2>4
<1>4. ASSUME NEW ih \in Hash, RemoveForget(c, ih)
      PROVE  FALSE
  <2>1. /\ req[c].pc = "idle" /\ swarm' = swarm /\ mt' = mt
        /\ torrents' = [torrents EXCEPT ![ih] = 0]
        /\ req' = [req EXCEPT ![c] = [pc |-> "drop", ih |-> ih, m |-> torrents[ih], t |-> 0]]
    BY <1>4 DEF RemoveForget, client
  <2>2. Owned(h)
    BY <1>0, <2>1 DEF Orphan
  <2>3. CASE h = ih /\ TrackedMt(ih).t = swarm[ih]
    <3>1. /\ req'[c].pc = "drop" /\ req'[c].ih = ih
          /\ mt'[ih][req'[c].m].t = swarm'[ih]
      BY <2>1, <2>3 DEF TrackedMt, TypeOK
    <3> QED
      BY <1>0, <2>3, <3>1 DEF Owned
  <2>4. CASE ~(h = ih /\ TrackedMt(ih).t = swarm[ih])
    <3>1. \A d \in Caller : CallerOwns(d, h) => req'[d] = req[d]
      BY <2>1 DEF CallerOwns, TypeOK
    <3>2. TrackedMt(h).t = swarm[h] => torrents'[h] = torrents[h]
      BY <2>1, <2>4 DEF TypeOK
    <3> QED
      BY <1>0, <2>1, <2>2, <3>1, <3>2, SameOwners
  <2> QED
    BY <2>3, <2>4
<1>5. CASE RemoveDrop(c)
  <2> DEFINE ih == req[c].ih
             t  == mt[ih][req[c].m].t
  <2>1. /\ req[c].pc = "drop" /\ ih \in Hash /\ req[c].m \in Torrent
        /\ torrents' = torrents /\ req' = [req EXCEPT ![c] = Idle]
        /\ mt' = Cancelled(ih, req[c].m) /\ swarm' = Dropped(ih, t)
    BY <1>5 DEF RemoveDrop, RequestsFormed
  <2>2. swarm'[h] = swarm[h] /\ ~(h = ih /\ t = swarm[h])
    BY <1>0, <2>1 DEF Dropped, TypeOK
  <2>3. Owned(h)
    BY <1>0, <2>2 DEF Orphan
  <2>4. \A d \in Caller : CallerOwns(d, h) => req'[d] = req[d]
    BY <2>1, <2>2 DEF CallerOwns, TypeOK
  <2>5. \A k \in Torrent : mt'[h][k].t = mt[h][k].t
    BY <2>1, CancelledMt
  <2> HIDE DEF ih, t
  <2> QED
    BY <1>0, <2>1, <2>2, <2>3, <2>4, <2>5, SameOwners
<1> QED
  BY <1>1, <1>2, <1>3, <1>4, <1>5 DEF CallerStep, AddRegister

LEMMA WaiterOrphans ==
  ASSUME IInv, OInv, NEW w \in waiters, WaiterStep(w), NEW h \in Hash, ~Orphan(h), Orphan(h)'
  PROVE  FALSE
<1> USE DEF IInv
<1>0. /\ swarm'[h] # 0 /\ ~Owned(h)' /\ swarm'[h] = swarm[h] /\ Owned(h)
      /\ req' = req /\ evicted' = evicted /\ rebAt' = rebAt /\ cur' = cur
  <2>1. swarm'[h] \in {0, swarm[h]}
    BY WaiterHandles
  <2> QED
    BY <2>1 DEF Orphan, WaiterStep, WaiterStart, WaiterGotInfo, WaiterAttach, WaiterTimeout,
       WaiterDrop, WaiterQuit, collect, rebuild
<1>1. \A m \in Torrent : mt'[h][m].t = mt[h][m].t
  BY WaiterHandles
<1>2. CASE WaiterTimeout(w) /\ IsCurrent(w.ih, w.m, w.t)
  <2>1. /\ w \in Waiter /\ w.pc = "waiting"
        /\ torrents' = [torrents EXCEPT ![w.ih] = 0]
        /\ waiters' = Others(w) \cup {[w EXCEPT !.pc = "drop"]}
    BY <1>2 DEF WaiterTimeout, TypeOK
  <2>2. CASE h = w.ih /\ w.t = swarm[h]
    <3>1. PICK x \in waiters' : x.pc = "drop" /\ x.ih = h /\ x.t = swarm'[h]
      <4>1. /\ [w EXCEPT !.pc = "drop"].pc = "drop" /\ [w EXCEPT !.pc = "drop"].ih = w.ih
            /\ [w EXCEPT !.pc = "drop"].t = w.t
        BY <2>1 DEF Waiter
      <4> QED
        BY <1>0, <2>1, <2>2, <4>1
    <3> QED
      BY <1>0, <3>1 DEF Owned
  <2>3. CASE ~(h = w.ih /\ w.t = swarm[h])
    <3>1. Tracked(h) /\ TrackedMt(h).t = swarm[h] => torrents'[h] = torrents[h]
      BY <1>2, <2>1, <2>3 DEF IsCurrent, TrackedMt, TypeOK
    <3>2. \A x \in waiters : x.pc = "drop" /\ x.ih = h /\ x.t = swarm[h] => x \in waiters'
      BY <2>1 DEF Others
    <3> QED
      BY <1>0, <1>1, <3>1, <3>2, SameOwners
  <2> QED
    BY <2>2, <2>3
<1>3. CASE ~(WaiterTimeout(w) /\ IsCurrent(w.ih, w.m, w.t))
  <2>1. torrents' = torrents
    BY <1>3 DEF WaiterStep, WaiterStart, WaiterGotInfo, WaiterAttach, WaiterTimeout,
       WaiterDrop, WaiterQuit, registry
  <2>2. \A x \in waiters : x.pc = "drop" /\ x.ih = h /\ x.t = swarm[h] => x \in waiters'
    <3>1. CASE WaiterDrop(w)
      <4>1. w.ih \in Hash /\ swarm' = Dropped(w.ih, w.t) /\ waiters' = Others(w)
        BY <3>1 DEF WaiterDrop, TypeOK, Waiter
      <4>2. ~(w.ih = h /\ w.t = swarm[h])
        BY <1>0, <4>1 DEF Dropped, TypeOK
      <4> QED
        BY <4>1, <4>2 DEF Others
    <3>2. CASE ~WaiterDrop(w)
      <4>1. w.pc # "drop" /\ Others(w) \subseteq waiters'
        BY <1>3, <3>2 DEF WaiterStep, WaiterStart, WaiterGotInfo, WaiterAttach, WaiterTimeout,
           WaiterQuit
      <4> QED
        BY <4>1 DEF Others
    <3> QED
      BY <3>1, <3>2
  <2> QED
    BY <1>0, <1>1, <2>1, <2>2, SameOwners
<1> QED
  BY <1>2, <1>3

LEMMA GCOrphans ==
  ASSUME IInv, OInv, GCStep, NEW h \in Hash, ~Orphan(h), Orphan(h)'
  PROVE  FALSE
<1> USE DEF IInv
<1>0. /\ swarm'[h] # 0 /\ ~Owned(h)'
      /\ req' = req /\ waiters' = waiters /\ rebAt' = rebAt /\ cur' = cur
  BY DEF Orphan, GCStep, GCScan, GCDrop, GCExit, rebuild
<1>1. CASE GCScan
  <2>1. /\ swarm' = swarm /\ mt' = mt /\ evicted = {} /\ Owned(h)
        /\ torrents' = [ih \in Hash |-> IF ih \in Evictable THEN 0 ELSE torrents[ih]]
        /\ evicted' = {[ih |-> ih, m |-> torrents[ih], t |-> TrackedMt(ih).t] : ih \in Evictable}
    BY <1>0, <1>1 DEF GCScan, client, OInv, EvictedWhileDropping, Orphan
  <2>2. CASE h \in Evictable /\ TrackedMt(h).t = swarm[h]
    <3> DEFINE e == [ih |-> h, m |-> torrents[h], t |-> TrackedMt(h).t]
    <3>1. e \in evicted' /\ e.ih = h /\ e.t = swarm'[h]
      BY <2>1, <2>2
    <3> HIDE DEF e
    <3> QED
      BY <1>0, <3>1 DEF Owned
  <2>3. CASE ~(h \in Evictable /\ TrackedMt(h).t = swarm[h])
    BY <1>0, <2>1, <2>3, SameOwners
  <2> QED
    BY <2>2, <2>3
<1>2. ASSUME NEW d \in evicted, GCDrop(d)
      PROVE  FALSE
  <2>1. /\ d.ih \in Hash /\ d.m \in Torrent /\ torrents' = torrents
        /\ mt' = Cancelled(d.ih, d.m) /\ swarm' = Dropped(d.ih, d.t) /\ evicted' = evicted \ {d}
    BY <1>2 DEF GCDrop, TypeOK, Eviction
  <2>2. swarm'[h] = swarm[h] /\ ~(h = d.ih /\ d.t = swarm[h])
    BY <1>0, <2>1 DEF Dropped, TypeOK
  <2>3. Owned(h)
    BY <1>0, <2>2 DEF Orphan
  <2>4. \A k \in Torrent : mt'[h][k].t = mt[h][k].t
    BY <2>1, CancelledMt
  <2>5. \A e \in evicted : e.ih = h /\ e.t = swarm[h] => e \in evicted'
    BY <2>1, <2>2
  <2> QED
    BY <1>0, <2>1, <2>2, <2>3, <2>4, <2>5, SameOwners
<1>3. CASE GCExit
  BY <1>0, <1>3, SameOwners DEF GCExit, client, registry, Orphan
<1> QED
  BY <1>1, <1>2, <1>3 DEF GCStep

LEMMA RebuildOrphans ==
  ASSUME IInv, OInv, RebuildStep, NEW h \in Hash, ~Orphan(h), Orphan(h)'
  PROVE  FALSE
<1> USE DEF IInv
<1>0. /\ swarm'[h] # 0 /\ ~Owned(h)'
      /\ req' = req /\ evicted' = evicted /\ waiters \subseteq waiters'
  BY DEF Orphan, RebuildStep, RebuildSnapshot, RebuildKeepOld, RebuildSwap, RebuildReadd,
     RebuildReaddFails, RebuildCommit, RebuildDone, RecoveryExit, collect
<1>1. CASE RebuildSnapshot \/ RebuildKeepOld \/ RebuildDone \/ RecoveryExit
  <2>1. swarm' = swarm /\ torrents' = torrents /\ mt' = mt /\ rebAt # "commit"
    BY <1>1 DEF RebuildSnapshot, RebuildKeepOld, RebuildDone, RecoveryExit, client, registry
  <2> QED
    BY <1>0, <2>1, SameOwners DEF Orphan
<1>2. CASE RebuildSwap
  BY <1>0, <1>2 DEF RebuildSwap
<1>3. ASSUME NEW s \in snaps, NEW keepsInfo \in BOOLEAN, RebuildReadd(s, keepsInfo)
      PROVE  FALSE
  <2>1. /\ rebAt = "readd" /\ rebAt' = "commit" /\ torrents' = torrents /\ mt' = mt /\ s.ih \in Hash
        /\ swarm' = [swarm EXCEPT ![s.ih] = born[s.ih] + 1]
        /\ cur' = [ih |-> s.ih, m |-> s.m, t |-> born[s.ih] + 1]
    BY <1>3 DEF RebuildReadd, registry, TypeOK, Snapshot
  <2>2. CASE h = s.ih
    BY <1>0, <2>1, <2>2 DEF Owned, TypeOK
  <2>3. CASE h # s.ih
    BY <1>0, <2>1, <2>3, SameOwners DEF Orphan, TypeOK
  <2> QED
    BY <2>2, <2>3
<1>4. ASSUME NEW s \in snaps, RebuildReaddFails(s)
      PROVE  FALSE
  <2>1. /\ swarm' = swarm /\ rebAt = "readd" /\ s.ih \in Hash /\ s.m \in Torrent
        /\ \A g \in Hash : g # s.ih => torrents'[g] = torrents[g]
        /\ mt' = mt \/ mt' = Cancelled(s.ih, s.m)
    BY <1>4 DEF RebuildReaddFails, client, TypeOK, Snapshot
  <2>2. h # s.ih
    BY <1>0, <2>1 DEF OInv, SnapsUnbound
  <2>3. \A k \in Torrent : mt'[h][k].t = mt[h][k].t
    BY <2>1, CancelledMt
  <2> QED
    BY <1>0, <2>1, <2>2, <2>3, SameOwners DEF Orphan
<1>5. CASE RebuildCommit
  <2>1. /\ rebAt = "commit" /\ torrents' = torrents
        /\ cur.ih \in Hash /\ cur.m \in Torrent /\ cur.t = born[cur.ih]
    BY <1>5 DEF RebuildCommit, CommitFormed, OInv, CommitLast
  <2>2. CASE torrents[cur.ih] = cur.m
    <3>1. swarm' = swarm /\ mt' = Updated(cur.ih, cur.m, [mt[cur.ih][cur.m] EXCEPT !.t = cur.t])
      BY <1>5, <2>2 DEF RebuildCommit
    <3>2. mt'[cur.ih][cur.m].t = cur.t /\ \A g \in Hash : g # cur.ih => mt'[g] = mt[g]
      BY <2>1, <3>1 DEF Updated, TypeOK, Managed
    <3>3. CASE h = cur.ih
      <4>1. swarm'[h] = cur.t
        BY <1>0, <2>1, <3>1, <3>3 DEF OInv, HandlesLast
      <4> QED
        BY <1>0, <2>1, <2>2, <3>2, <3>3, <4>1 DEF Owned, Tracked, TrackedMt, Torrent
    <3>4. CASE h # cur.ih
      BY <1>0, <2>1, <3>1, <3>2, <3>4, SameOwners DEF Orphan
    <3> QED
      BY <3>3, <3>4
  <2>3. CASE torrents[cur.ih] # cur.m
    <3>1. swarm' = Dropped(cur.ih, cur.t) /\ mt' = mt
      BY <1>5, <2>3 DEF RebuildCommit
    <3>2. h # cur.ih
      BY <1>0, <2>1, <3>1 DEF Dropped, OInv, HandlesLast, TypeOK
    <3>3. swarm'[h] = swarm[h]
      BY <3>1, <3>2 DEF Dropped, TypeOK
    <3> QED
      BY <1>0, <2>1, <3>1, <3>2, <3>3, SameOwners DEF Orphan
  <2> QED
    BY <2>2, <2>3
<1> QED
  BY <1>1, <1>2, <1>3, <1>4, <1>5 DEF RebuildStep

LEMMA NextOrphans ==
  ASSUME IInv, OInv, [Next]_vars, NEW h \in Hash, ~Orphan(h), Orphan(h)'
  PROVE  RacedAdd(h)
<1> USE DEF IInv
<1>0. swarm'[h] # 0 /\ ~Owned(h)' /\ (swarm'[h] = swarm[h] => Owned(h))
  BY DEF Orphan
<1>1. ASSUME NEW v \in Viewer, ViewerStep(v) PROVE FALSE
  <2>1. UNCHANGED <<swarm, torrents, req, evicted, waiters, rebAt, cur>>
    BY <1>1 DEF ViewerStep, StreamOpen, StreamRegister, StreamEnd, client, registry, collect, rebuild
  <2>2. \A m \in Torrent : mt'[h][m].t = mt[h][m].t
    BY <1>1, ViewerHandles
  <2> QED
    BY <1>0, <2>1, <2>2, SameOwners
<1>2. ASSUME NEW ih \in Hash, TorrentStep(ih) PROVE FALSE
  <2>1. UNCHANGED <<swarm, torrents, req, evicted, waiters, rebAt, cur>>
    BY <1>2 DEF TorrentStep, Pause, Resume, Touch, GoIdle, MetadataArrives, client, registry,
       collect, rebuild
  <2>2. \A m \in Torrent : mt'[h][m].t = mt[h][m].t
    BY <1>2, TorrentHandles
  <2> QED
    BY <1>0, <2>1, <2>2, SameOwners
<1>3. CASE CloseStep
  <2>1. /\ UNCHANGED <<torrents, req, evicted, waiters, rebAt, cur>>
        /\ swarm'[h] = swarm[h]
    BY <1>0, <1>3 DEF CloseStep, CloseCall, CloseSignal, CloseClient, client, registry, collect, rebuild
  <2>2. \A m \in Torrent : mt'[h][m].t = mt[h][m].t
    BY <1>3, CloseHandles
  <2> QED
    BY <1>0, <2>1, <2>2, SameOwners
<1>4. CASE Exited \/ UNCHANGED vars
  BY <1>0, <1>4, SameOwners DEF Exited, vars, client, registry, collect, rebuild
<1> QED
  BY <1>1, <1>2, <1>3, <1>4, CallerOrphans, WaiterOrphans, GCOrphans, RebuildOrphans DEF Next

(* No step but an Add that binds a tracked torrent again to a handle that   *)
(* another goroutine has dropped meanwhile orphans a session of the client. *)
THEOREM OrphansOnlyRaced == Spec => OrphanOnlyByRacedAdd
<1>1. Init => OInv
  BY DEF Init, OInv, HandlesLast, SnapsUnbound, CommitLast, DropsForgotten,
     EvictedWhileDropping, Idle
<1>2. ASSUME IInv, OInv, [Next]_vars
      PROVE  [\A ih \in Hash : Orphan(ih)' => Orphan(ih) \/ RacedAdd(ih)]_vars
  BY <1>2, NextOrphans
<1> QED
  BY <1>1, <1>2, InitIInv, NextIInv, NextOInv, PTL DEF Spec, OrphanOnlyByRacedAdd

-----------------------------------------------------------------------------
(* Forgetting torrents, in a step that rebinds none and tracks none, is     *)
(* Binding's Forget or nothing.                                             *)
LEMMA ForgetRefines ==
  ASSUME IInv, Mode' = Mode, epoch' = epoch,
         \A ih \in Hash : torrents'[ih] \in {0, torrents[ih]},
         \A ih \in Hash, m \in Torrent : mt'[ih][m].t = mt[ih][m].t
  PROVE  [B!BNext]_(B!bvars)
<1>1. Served' \subseteq Served
  BY DEF Served
<1>2. Stale' = Stale \cap Served'
  <2>1. \A ih \in Served' : torrents'[ih] = torrents[ih] /\ torrents[ih] \in Torrent
    BY DEF Served, IInv, TypeOK, Torrent
  <2>2. \A ih \in Served' : mt'[ih][torrents'[ih]].t = mt[ih][torrents[ih]].t
    BY <2>1 DEF Served
  <2> QED
    BY <1>1, <2>1, <2>2 DEF Stale
<1>3. CASE Served' = Served
  <2>1. Stale' = Stale
    BY <1>2, <1>3 DEF Stale
  <2> QED
    BY <1>3, <2>1 DEF B!bvars
<1>4. CASE Served' # Served
  <2> DEFINE gone == Served \ Served'
  <2>1. gone # {} /\ gone \in SUBSET Served /\ Served' = Served \ gone
    BY <1>1, <1>4
  <2>2. Stale' = Stale \ gone
    BY <1>2 DEF Stale
  <2>3. B!Forget(gone)
    BY <2>1, <2>2 DEF B!Forget
  <2> QED
    BY <2>1, <2>3 DEF B!BNext
<1> QED
  BY <1>3, <1>4

(* A step that leaves the mapped variables alone.                           *)
LEMMA StutterRefines ==
  ASSUME Mode' = Mode, UNCHANGED <<epoch, torrents, mt>>
  PROVE  [B!BNext]_(B!bvars)
BY DEF B!bvars, Served, Stale

(* Outside a rebuild no served torrent is stale.                            *)
LEMMA NoneStale ==
  ASSUME IInv, rebAt \notin {"readd", "commit"}
  PROVE  Stale = {}
<1> SUFFICES ASSUME NEW ih \in Hash, torrents[ih] # 0 PROVE ~(mt[ih][torrents[ih]].t <= epoch[ih])
  BY DEF Stale, Served
<1>1. mt[ih][torrents[ih]].t > epoch[ih]
  BY DEF IInv, NoStrandedTorrent, Tracked, TrackedMt
<1>2. mt[ih][torrents[ih]].t \in Nat /\ epoch[ih] \in Nat
  <2>1. torrents[ih] \in Torrent
    BY DEF IInv, TypeOK, Torrent
  <2>2. mt[ih][torrents[ih]] \in Managed
    BY <2>1 DEF IInv, TypeOK
  <2> QED
    BY <2>2 DEF IInv, TypeOK, Managed
<1> QED
  BY <1>1, <1>2

LEMMA NoneStaleNext ==
  ASSUME IInv', rebAt' \notin {"readd", "commit"}
  PROVE  Stale' = {}
<1> SUFFICES ASSUME NEW ih \in Hash, torrents'[ih] # 0 PROVE ~(mt'[ih][torrents'[ih]].t <= epoch'[ih])
  BY DEF Stale, Served
<1>1. mt'[ih][torrents'[ih]].t > epoch'[ih]
  BY DEF IInv, NoStrandedTorrent, Tracked, TrackedMt
<1>2. mt'[ih][torrents'[ih]].t \in Nat /\ epoch'[ih] \in Nat
  <2>1. torrents'[ih] \in Torrent
    BY DEF IInv, TypeOK, Torrent
  <2>2. mt'[ih][torrents'[ih]] \in Managed
    BY <2>1 DEF IInv, TypeOK
  <2> QED
    BY <2>2 DEF IInv, TypeOK, Managed
<1> QED
  BY <1>1, <1>2

LEMMA InitRefines == Init => B!BInit
BY DEF Init, B!BInit, Served, Stale, Mode, Closed

(* Committing a handle makes one torrent fresh, if it is still served.      *)
LEMMA CommitRefines ==
  ASSUME IInv, ClosedIsQuiet, RebuildCommit, closer' = closer
  PROVE  [B!BNext]_(B!bvars)
<1> USE DEF IInv
<1>1. /\ Mode = "swapping" /\ Mode' = "swapping"
      /\ torrents' = torrents /\ epoch' = epoch /\ rebAt = "commit"
  BY DEF RebuildCommit, Mode, Closed, ClosedIsQuiet, WriteLocked
<1>2. /\ cur.ih \in Hash /\ cur.m \in Torrent /\ cur.t \in Nat
      /\ epoch[cur.ih] < cur.t /\ epoch[cur.ih] \in Nat
  BY <1>1 DEF CommitFormed, TypeOK, Commit
<1>3. Served' = Served
  BY <1>1 DEF Served
<1>4. CASE torrents[cur.ih] = cur.m
  <2>1. /\ mt'[cur.ih][cur.m].t = cur.t
        /\ \A h \in Hash : h # cur.ih => mt'[h] = mt[h]
    BY <1>2, <1>4 DEF RebuildCommit, Updated, TypeOK, Managed
  <2>2. Stale' = Stale \ {cur.ih}
    BY <1>1, <1>2, <1>3, <1>4, <2>1 DEF Stale, Served
  <2>3. CASE cur.ih \in Stale
    BY <1>1, <1>2, <1>3, <2>2, <2>3 DEF B!BNext, B!Rebind
  <2>4. CASE cur.ih \notin Stale
    <3>1. Stale' = Stale
      BY <2>2, <2>4 DEF Stale
    <3> QED
      BY <1>1, <1>3, <3>1 DEF B!bvars
  <2> QED
    BY <2>3, <2>4
<1>5. CASE torrents[cur.ih] # cur.m
  BY <1>1, <1>5, StutterRefines DEF RebuildCommit
<1> QED
  BY <1>4, <1>5

LEMMA NextRefines ==
  ASSUME IInv, IInv', ClosedIsQuiet, [Next]_vars
  PROVE  [B!BNext]_(B!bvars)
<1>1. ASSUME NEW c \in Caller, AddRegister(c) PROVE [B!BNext]_(B!bvars)
  <2>1. /\ Closed' = Closed /\ rebAt' = rebAt /\ epoch' = epoch
        /\ req[c].pc = "register" /\ req[c].ih \in Hash
    BY <1>1 DEF AddRegister, AddReopen, AddNew, rebuild, client, Closed, IInv, RequestsFormed
  <2>2. rebAt \notin {"readd", "commit"} /\ Mode = "serving" /\ Mode' = "serving"
    BY <2>1 DEF IInv, LockExclusive, ReadLocked, WriteLocked, Mode, ClosedIsQuiet
  <2>3. Stale = {} /\ Stale' = {}
    BY <2>1, <2>2, NoneStale, NoneStaleNext
  <2>4. CASE AddReopen(c)
    BY <2>2, <2>3, <2>4 DEF AddReopen, B!bvars, Served
  <2>5. CASE AddNew(c)
    <3>1. req[c].ih \notin Served /\ Served' = Served \cup {req[c].ih}
      BY <2>1, <2>5 DEF AddNew, Tracked, Served, IInv, TypeOK
    <3>2. B!Track(req[c].ih)
      BY <2>2, <2>3, <3>1 DEF B!Track
    <3> QED
      BY <2>1, <3>2 DEF B!BNext
  <2> QED
    BY <1>1, <2>4, <2>5 DEF AddRegister
<1>2. ASSUME NEW c \in Caller, CallerStep(c), ~AddRegister(c) PROVE [B!BNext]_(B!bvars)
  <2>1. ASSUME NEW ih \in Hash, NEW withInfo \in BOOLEAN, AddBind(c, ih, withInfo)
        PROVE  [B!BNext]_(B!bvars)
    BY <2>1, StutterRefines DEF AddBind, registry, rebuild, Mode, Closed
  <2>2. ASSUME NEW ih \in Hash, RemoveForget(c, ih)
        PROVE  [B!BNext]_(B!bvars)
    <3>1. Mode' = Mode /\ epoch' = epoch /\ mt' = mt
      BY <2>2 DEF RemoveForget, Mode, Closed, rebuild, client
    <3>2. \A h \in Hash : torrents'[h] \in {0, torrents[h]}
      BY <2>2 DEF RemoveForget, IInv, TypeOK
    <3> QED
      BY <3>1, <3>2, ForgetRefines
  <2>3. CASE RemoveDrop(c)
    <3>1. Mode' = Mode /\ epoch' = epoch /\ torrents' = torrents
      BY <2>3 DEF RemoveDrop, Mode, Closed, rebuild
    <3>2. \A h \in Hash, m \in Torrent : mt'[h][m].t = mt[h][m].t
      BY <2>3, CancelledMt DEF RemoveDrop, IInv, RequestsFormed
    <3> QED
      BY <3>1, <3>2, ForgetRefines
  <2> QED
    BY <1>2, <2>1, <2>2, <2>3 DEF CallerStep
<1>3. ASSUME NEW v \in Viewer, ViewerStep(v) PROVE [B!BNext]_(B!bvars)
  <2>1. Mode' = Mode /\ epoch' = epoch /\ torrents' = torrents
    BY <1>3 DEF ViewerStep, StreamOpen, StreamRegister, StreamEnd, Mode, Closed, rebuild, client, registry
  <2>2. \A h \in Hash, m \in Torrent : mt'[h][m].t = mt[h][m].t
    BY <1>3, ViewerHandles
  <2> QED
    BY <2>1, <2>2, ForgetRefines
<1>4. ASSUME NEW ih \in Hash, TorrentStep(ih) PROVE [B!BNext]_(B!bvars)
  <2>1. Mode' = Mode /\ epoch' = epoch /\ torrents' = torrents
    BY <1>4 DEF TorrentStep, Pause, Resume, Touch, GoIdle, MetadataArrives, Mode, Closed,
       rebuild, client, registry
  <2>2. \A h \in Hash, m \in Torrent : mt'[h][m].t = mt[h][m].t
    BY <1>4, TorrentHandles
  <2> QED
    BY <2>1, <2>2, ForgetRefines
<1>5. ASSUME NEW w \in waiters, WaiterStep(w) PROVE [B!BNext]_(B!bvars)
  <2>1. Mode' = Mode /\ epoch' = epoch
    BY <1>5 DEF WaiterStep, WaiterStart, WaiterGotInfo, WaiterAttach, WaiterTimeout,
       WaiterDrop, WaiterQuit, Mode, Closed, rebuild, client
  <2>2. /\ \A h \in Hash, m \in Torrent : mt'[h][m].t = mt[h][m].t
        /\ \A h \in Hash : torrents'[h] \in {0, torrents[h]}
    BY <1>5, WaiterHandles
  <2> QED
    BY <2>1, <2>2, ForgetRefines
<1>6. CASE GCStep
  <2>1. Mode' = Mode /\ epoch' = epoch
    BY <1>6 DEF GCStep, GCScan, GCDrop, GCExit, Mode, Closed, rebuild, client
  <2>2. \A h \in Hash, m \in Torrent : mt'[h][m].t = mt[h][m].t
    BY <1>6, CancelledMt DEF GCStep, GCScan, GCDrop, GCExit, registry, IInv, TypeOK, Eviction
  <2>3. \A h \in Hash : torrents'[h] \in {0, torrents[h]}
    BY <1>6 DEF GCStep, GCScan, GCDrop, GCExit, registry
  <2> QED
    BY <2>1, <2>2, <2>3, ForgetRefines
<1>7. CASE RebuildStep
  <2>1. closer' = closer
    BY <1>7 DEF RebuildStep, RebuildSnapshot, RebuildKeepOld, RebuildSwap, RebuildReadd,
       RebuildReaddFails, RebuildCommit, RebuildDone, RecoveryExit
  <2>2. CASE RebuildSnapshot \/ RebuildKeepOld \/ RecoveryExit
    BY <2>1, <2>2, StutterRefines DEF RebuildSnapshot, RebuildKeepOld, RecoveryExit, Mode,
       Closed, client, registry
  <2>3. CASE RebuildSwap
    <3>1. Mode = "serving" /\ Mode' = "swapping"
      BY <2>1, <2>3 DEF RebuildSwap, Mode, Closed, ClosedIsQuiet, WriteLocked
    <3>2. Served' = Served /\ Stale' = Served
      <4>1. torrents' = torrents /\ mt' = mt /\ epoch' = born
        BY <2>3 DEF RebuildSwap, registry
      <4>2. \A ih \in Served : mt[ih][torrents[ih]].t <= born[ih]
        BY DEF BoundHandles, Served, IInv, TypeOK, Torrent
      <4> QED
        BY <4>1, <4>2 DEF Served, Stale
    <3> QED
      BY <3>1, <3>2 DEF B!BNext, B!BeginSwap
  <2>4. ASSUME NEW s \in snaps, NEW keepsInfo \in BOOLEAN, RebuildReadd(s, keepsInfo)
        PROVE  [B!BNext]_(B!bvars)
    BY <2>1, <2>4, StutterRefines DEF RebuildReadd, Mode, Closed, registry
  <2>5. ASSUME NEW s \in snaps, RebuildReaddFails(s)
        PROVE  [B!BNext]_(B!bvars)
    <3>1. Mode' = Mode /\ epoch' = epoch
      BY <2>1, <2>5 DEF RebuildReaddFails, Mode, Closed, client
    <3>2. s.ih \in Hash /\ s.m \in Torrent
      BY DEF IInv, TypeOK, Snapshot
    <3>3. \A h \in Hash, m \in Torrent : mt'[h][m].t = mt[h][m].t
      BY <2>5, <3>2, CancelledMt DEF RebuildReaddFails
    <3>4. \A h \in Hash : torrents'[h] \in {0, torrents[h]}
      BY <2>5, <3>2 DEF RebuildReaddFails, IInv, TypeOK
    <3> QED
      BY <3>1, <3>3, <3>4, ForgetRefines
  <2>6. CASE RebuildCommit
    BY <2>1, <2>6, CommitRefines
  <2>7. CASE RebuildDone
    <3>1. Mode = "swapping" /\ Mode' = "serving"
      BY <2>1, <2>7 DEF RebuildDone, Mode, Closed, ClosedIsQuiet, WriteLocked
    <3>2. Served' = Served /\ Stale' = Stale
      BY <2>7 DEF RebuildDone, Served, Stale, client, registry
    <3>3. Stale' = {}
      <4>1. rebAt' = "ticking"
        BY <2>7 DEF RebuildDone
      <4> QED
        BY <4>1, NoneStaleNext
    <3> QED
      BY <3>1, <3>2, <3>3 DEF B!BNext, B!EndSwap
  <2> QED
    BY <1>7, <2>2, <2>3, <2>4, <2>5, <2>6, <2>7 DEF RebuildStep
<1>8. CASE CloseStep
  <2>1. rebAt' = rebAt /\ epoch' = epoch /\ torrents' = torrents
    BY <1>8 DEF CloseStep, CloseCall, CloseSignal, CloseClient, rebuild, client, registry
  <2>2. \A h \in Hash, m \in Torrent : mt'[h][m].t = mt[h][m].t
    BY <1>8, CloseHandles
  <2>3. CASE CloseSignal
    <3>1. Mode = "serving" /\ Mode' = "stopped"
      BY <2>3 DEF CloseSignal, Mode, Closed, WriteLocked
    <3>2. Served' = Served /\ Stale' = Stale
      <4>1. Served' = Served
        BY <2>1 DEF Served
      <4>2. \A h \in Served : torrents[h] \in Torrent /\ h \in Hash
        BY DEF Served, IInv, TypeOK, Torrent
      <4>3. \A h \in Served : mt'[h][torrents'[h]].t = mt[h][torrents[h]].t
        BY <2>1, <2>2, <4>2
      <4> QED
        BY <2>1, <4>1, <4>3 DEF Stale
    <3> QED
      BY <3>1, <3>2 DEF B!BNext, B!Stop
  <2>4. CASE CloseCall \/ CloseClient
    <3>1. Mode' = Mode
      BY <2>1, <2>4 DEF CloseCall, CloseClient, Mode, Closed
    <3> QED
      BY <2>1, <2>2, <3>1, ForgetRefines
  <2> QED
    BY <1>8, <2>3, <2>4 DEF CloseStep
<1>9. CASE Exited \/ UNCHANGED vars
  BY <1>9, StutterRefines DEF Exited, vars, client, registry, rebuild, Mode, Closed
<1> QED
  BY <1>1, <1>2, <1>3, <1>4, <1>5, <1>6, <1>7, <1>8, <1>9 DEF Next

(* The registry implements Binding.                                         *)
THEOREM RefinesBinding == Spec => BindingSpec
<1>1. Spec => [](IInv /\ ClosedIsQuiet)
  BY InitIInv, NextIInv, InitClosedIsQuiet, NextClosedIsQuiet, PTL DEF Spec
<1> QED
  BY <1>1, InitRefines, NextRefines, PTL DEF Spec, BindingSpec, B!BSpec

-----------------------------------------------------------------------------
(* /play.  Its requests reach the registry through Add only, so that what   *)
(* holds of the registry holds of the composition.                          *)
LEMMA PlayStepRefines ==
  ASSUME [PlayNext]_playVars
  PROVE  [Next]_vars
<1>1. ASSUME NEW c \in Caller, PlayStep(c) PROVE [Next]_vars
  <2>1. ASSUME NEW ih \in Hash, NEW withInfo \in BOOLEAN, PlayBind(c, ih, withInfo)
        PROVE  Next
    BY <2>1 DEF PlayBind, Next, CallerStep
  <2>2. CASE PlayRegister(c)
    BY <2>2 DEF PlayRegister, Next, CallerStep
  <2>3. CASE PlayLoad(c) \/ PlayGotInfo(c) \/ PlayTimeout(c) \/ PlayFiles(c)
    BY <2>3 DEF PlayLoad, PlayGotInfo, PlayTimeout, PlayFiles
  <2> QED
    BY <1>1, <2>1, <2>2, <2>3 DEF PlayStep
<1>2. CASE RegistryStep
  BY <1>2 DEF RegistryStep
<1>3. CASE UNCHANGED playVars
  BY <1>3 DEF playVars
<1> QED
  BY <1>1, <1>2, <1>3 DEF PlayNext

(* The registry that /play requests are served from is the registry: every  *)
(* step of the composition is one of Registry, or none.                     *)
LEMMA PlayIsRegistry == PlaySpec => Spec
  BY PlayStepRefines, PTL DEF PlaySpec, PlayInit, Spec

(* The collector spares the viewers while /play requests wait, too.         *)
THEOREM PlayViewersSpared == PlaySpec => CollectorSparesViewers
  BY PlayIsRegistry, ViewersSpared

(* The Add of a /play holds a handle for the infohash of the request; what  *)
(* Add returned was made; the handle a file was chosen from has metadata.   *)
PlayInv ==
  /\ play \in [Caller -> Playing]
  /\ \A c \in Caller :
       /\ play[c].pc # "idle" => play[c].ih \in Hash
       /\ play[c].pc = "adding" => req[c].pc = "register" /\ req[c].ih = play[c].ih
       /\ play[c].pc \in {"added", "waiting", "chosen"} => play[c].m \in Torrent
       /\ play[c].pc = "chosen" => play[c].t \in info[play[c].ih]

LEMMA MetadataStays ==
  ASSUME IInv, [Next]_vars, NEW ih \in Hash
  PROVE  info[ih] \subseteq info'[ih]
<1> USE DEF IInv
<1>1. ASSUME NEW c \in Caller, CallerStep(c) PROVE info[ih] \subseteq info'[ih]
  <2>1. ASSUME NEW h \in Hash, NEW withInfo \in BOOLEAN, AddBind(c, h, withInfo)
        PROVE  info[ih] \subseteq info'[ih]
    <3>1. CASE withInfo
      BY <2>1, <3>1 DEF AddBind, TypeOK
    <3>2. CASE ~withInfo
      BY <2>1, <3>2 DEF AddBind, TypeOK
    <3> QED
      BY <3>1, <3>2
  <2> QED
    BY <1>1, <2>1 DEF CallerStep, AddRegister, AddReopen, AddNew, RemoveForget, RemoveDrop, client
<1>2. ASSUME NEW v \in Viewer, ViewerStep(v) PROVE info' = info
  BY <1>2 DEF ViewerStep, StreamOpen, StreamRegister, StreamEnd, client
<1>3. ASSUME NEW h \in Hash, TorrentStep(h) PROVE info[ih] \subseteq info'[ih]
  BY <1>3 DEF TorrentStep, Pause, Resume, Touch, GoIdle, MetadataArrives, client, TypeOK
<1>4. ASSUME NEW w \in waiters, WaiterStep(w) PROVE info' = info
  BY <1>4 DEF WaiterStep, WaiterStart, WaiterGotInfo, WaiterAttach, WaiterTimeout, WaiterDrop,
     WaiterQuit, client
<1>5. CASE GCStep \/ CloseStep
  BY <1>5 DEF GCStep, GCScan, GCDrop, GCExit, CloseStep, CloseCall, CloseSignal, CloseClient, client
<1>6. CASE RebuildStep
  <2>1. ASSUME NEW s \in snaps, NEW keepsInfo \in BOOLEAN, RebuildReadd(s, keepsInfo)
        PROVE  info[ih] \subseteq info'[ih]
    <3>1. CASE keepsInfo
      BY <2>1, <3>1 DEF RebuildReadd, TypeOK
    <3>2. CASE ~keepsInfo
      BY <2>1, <3>2 DEF RebuildReadd, TypeOK
    <3> QED
      BY <3>1, <3>2
  <2> QED
    BY <1>6, <2>1 DEF RebuildStep, RebuildSnapshot, RebuildKeepOld, RebuildSwap,
       RebuildReaddFails, RebuildCommit, RebuildDone, RecoveryExit, client
<1>7. CASE Exited \/ UNCHANGED vars
  BY <1>7 DEF Exited, vars, client
<1> QED
  BY <1>1, <1>2, <1>3, <1>4, <1>5, <1>6, <1>7 DEF Next

LEMMA NoPlayFormed == NoPlay \in Playing /\ NoPlay.pc = "idle"
  BY BoundsAssumption DEF NoPlay, Playing

(* The caller that moves.                                                   *)
LEMMA PlayMoves ==
  ASSUME NEW c \in Caller, play \in [Caller -> Playing], NEW r \in Playing, Goes(c, r)
  PROVE  /\ play' \in [Caller -> Playing] /\ play'[c] = r
         /\ \A d \in Caller : d # c => play'[d] = play[d]
BY DEF Goes

LEMMA PlayStepInv ==
  ASSUME IInv, IInv', PlayInv, NEW c \in Caller, PlayStep(c)
  PROVE  PlayInv'
<1> USE DEF IInv
<1>0. /\ play[c] \in Playing /\ NoPlay \in Playing
      /\ \A ih \in Hash : info[ih] \subseteq info'[ih]
  <2>1. [Next]_vars
    BY PlayStepRefines DEF PlayNext
  <2> QED
    BY <2>1, MetadataStays, NoPlayFormed DEF PlayInv
<1>1. ASSUME NEW ih \in Hash, NEW withInfo \in BOOLEAN, PlayBind(c, ih, withInfo)
      PROVE  PlayInv'
  <2> DEFINE r == [NoPlay EXCEPT !.pc = "adding", !.ih = ih]
  <2>1. r \in Playing /\ r.pc = "adding" /\ r.ih = ih
    BY <1>0 DEF NoPlay, Playing
  <2>2. Goes(c, r) /\ req'[c].pc = "register" /\ req'[c].ih = ih
    BY <1>1 DEF PlayBind, AddBind, TypeOK
  <2>3. \A d \in Caller : d # c => req'[d] = req[d]
    BY <1>1 DEF PlayBind, AddBind, TypeOK
  <2> HIDE DEF r
  <2> QED
    BY <1>0, <2>1, <2>2, <2>3, PlayMoves DEF PlayInv
<1>2. CASE PlayRegister(c)
  <2> DEFINE r == [play[c] EXCEPT !.pc = "added", !.m = torrents'[play[c].ih]]
  <2>1. /\ play[c].ih \in Hash /\ req[c].ih = play[c].ih /\ torrents'[play[c].ih] \in Torrent
    <3>1. play[c].ih \in Hash /\ req[c].ih = play[c].ih
      BY <1>2 DEF PlayRegister, In, PlayInv
    <3>2. torrents'[req[c].ih] # 0
      BY <1>2, <3>1 DEF PlayRegister, AddRegister, AddReopen, AddNew, Tracked, TypeOK
    <3>3. TypeOK'
      OBVIOUS
    <3>4. torrents'[req[c].ih] \in 0..MaxTorrent
      BY <3>1, <3>3 DEF TypeOK
    <3> QED
      BY <3>1, <3>2, <3>4, BoundsAssumption DEF Torrent
  <2>2. /\ r \in Playing /\ r.pc = "added" /\ r.ih = play[c].ih /\ r.m \in Torrent
    <3>1. torrents'[play[c].ih] \in 0..MaxTorrent
      BY <2>1, BoundsAssumption DEF Torrent
    <3> QED
      BY <1>0, <2>1, <3>1 DEF Playing
  <2>3. Goes(c, r)
    BY <1>2 DEF PlayRegister
  <2>4. \A d \in Caller : d # c => req'[d] = req[d]
    BY <1>2 DEF PlayRegister, AddRegister, AddReopen, AddNew, TypeOK
  <2> HIDE DEF r
  <2> QED
    BY <1>0, <2>1, <2>2, <2>3, <2>4, PlayMoves DEF PlayInv
<1>3. CASE PlayLoad(c)
  <2> DEFINE r == [play[c] EXCEPT !.pc = "waiting", !.t = mt[play[c].ih][play[c].m].t]
  <2>1. play[c].ih \in Hash /\ play[c].m \in Torrent
    BY <1>3 DEF PlayLoad, In, PlayInv
  <2>2. mt[play[c].ih][play[c].m].t \in 0..MaxHandle
    BY <2>1 DEF TypeOK, Managed
  <2>3. /\ r \in Playing /\ r.pc = "waiting" /\ r.ih = play[c].ih /\ r.m = play[c].m
    BY <1>0, <2>2 DEF Playing
  <2>4. Goes(c, r) /\ UNCHANGED vars
    BY <1>3 DEF PlayLoad
  <2> HIDE DEF r
  <2> QED
    BY <1>0, <2>1, <2>3, <2>4, PlayMoves DEF PlayInv, vars
<1>4. CASE PlayGotInfo(c) /\ Goes(c, [play[c] EXCEPT !.pc = "chosen"])
  <2> DEFINE r == [play[c] EXCEPT !.pc = "chosen"]
  <2>1. /\ play[c].ih \in Hash /\ play[c].m \in Torrent /\ play[c].t \in info[play[c].ih]
    BY <1>4 DEF PlayGotInfo, In, PlayInv
  <2>2. /\ r \in Playing /\ r.pc = "chosen" /\ r.ih = play[c].ih /\ r.m = play[c].m
        /\ r.t = play[c].t
    BY <1>0 DEF Playing
  <2>3. Goes(c, r) /\ UNCHANGED vars
    BY <1>4 DEF PlayGotInfo
  <2> HIDE DEF r
  <2> QED
    BY <1>0, <2>1, <2>2, <2>3, PlayMoves DEF PlayInv, vars
<1>5. CASE Goes(c, NoPlay) /\ UNCHANGED vars
  <2>1. NoPlay.pc = "idle"
    BY DEF NoPlay
  <2> QED
    BY <1>0, <1>5, <2>1, PlayMoves DEF PlayInv, vars
<1> QED
  BY <1>1, <1>2, <1>3, <1>4, <1>5 DEF PlayStep, PlayGotInfo, PlayTimeout, PlayFiles

LEMMA NextPlayInv ==
  ASSUME IInv, IInv', PlayInv, [PlayNext]_playVars
  PROVE  PlayInv'
<1>1. CASE RegistryStep \/ UNCHANGED playVars
  <2>1. play' = play /\ \A c \in Caller : In(c, "adding") => req'[c] = req[c]
    BY <1>1 DEF RegistryStep, playVars, vars
  <2>2. \A ih \in Hash : info[ih] \subseteq info'[ih]
    BY PlayStepRefines, MetadataStays
  <2> QED
    BY <2>1, <2>2 DEF PlayInv, In
<1> QED
  BY <1>1, PlayStepInv DEF PlayNext

(* The handle that handlePlay lists the files of has metadata, whatever was *)
(* dropped or closed meanwhile, unless it is another handle than the one    *)
(* Play chose the file from: no interleaving but a rebinding of the torrent *)
(* in between defeats the wait of Play.                                     *)
FilesKnownUnlessRebound ==
  [][\A c \in Caller : In(c, "chosen") /\ ~In(c, "chosen")' /\ Listed(c) = play[c].t
        => Listed(c) \in info[play[c].ih]]_playVars

(* /play lists the files of a handle without metadata only if the torrent   *)
(* was bound to another handle after the file was chosen.                   *)
THEOREM FilesOrRebound == PlaySpec => FilesKnownUnlessRebound
<1>1. PlayInit => PlayInv
  BY NoPlayFormed DEF PlayInit, PlayInv
<1>2. ASSUME PlayInv
      PROVE  [\A c \in Caller : In(c, "chosen") /\ ~In(c, "chosen")' /\ Listed(c) = play[c].t
                => Listed(c) \in info[play[c].ih]]_playVars
  BY <1>2 DEF PlayInv, In
<1>3. PlaySpec => []IInv
  BY PlayIsRegistry, Inductive
<1> QED
  BY <1>1, <1>2, <1>3, NextPlayInv, PTL DEF PlaySpec, FilesKnownUnlessRebound
=============================================================================
