---------------------------- MODULE DaemonProofs ----------------------------
(***************************************************************************)
(* For any number of processes: the flock makes the daemon a singleton as  *)
(* long as nobody locks an unlinked lock file, the state file then always  *)
(* describes the daemon that serves, and the cache holds its data only.    *)
(***************************************************************************)
EXTENDS Daemon, TLAPS

USE DaemonAssumption DEF cacheVars

PcSet == Before \cup Running \cup Unwind \cup Over

LEMMA SInvInit == Init => SInv
  BY DEF Init, SInv, TypeOK, LockInv, ServingIsPublished, Before, Running, Unwind, Over

(* What a step of one process changes of its pc.                            *)
LEMMA GoesType ==
  ASSUME TypeOK, NEW p \in Procs, NEW from, NEW to \in PcSet, Goes(p, from, to)
  PROVE  /\ pc[p] = from /\ pc'[p] = to
         /\ \A q \in Procs \ {p} : pc'[q] = pc[q]
         /\ pc' \in [Procs -> PcSet]
  BY DEF TypeOK, Goes, PcSet

-----------------------------------------------------------------------------
(* Steps that leave the lock alone.                                         *)
Quiet(p) ==
  \/ Start(p) \/ Prepare(p) \/ PrepareOverStale(p) \/ Publish(p) \/ PublishFails(p)
  \/ RequestStop(p) \/ Drain(p) \/ Unpublish(p) \/ PurgeCache(p) \/ PurgeCacheFails(p)

LEMMA QuietType ==
  ASSUME TypeOK, NEW p \in Procs, Quiet(p)
  PROVE  TypeOK'
<1>1. pc' \in [Procs -> PcSet]
  BY DEF Quiet, Start, Prepare, PrepareOverStale, Publish, PublishFails, RequestStop, Drain,
     Unpublish,
         PurgeCache, PurgeCacheFails, Goes, TypeOK, PcSet, Before, Running, Unwind, Over
<1>2. UNCHANGED lockVars /\ stateFile' \in Procs \cup {None} /\ cache' \subseteq Procs /\ kept' \in BOOLEAN
  BY DEF Quiet, Start, Prepare, PrepareOverStale, Publish, PublishFails, RequestStop, Drain,
     Unpublish,
         PurgeCache, PurgeCacheFails, TypeOK
<1> QED
  BY <1>1, <1>2 DEF TypeOK, PcSet, lockVars

LEMMA QuietLock ==
  ASSUME TypeOK, LockInv, NEW p \in Procs, Quiet(p)
  PROVE  LockInv'
<1>1. UNCHANGED <<fd, held, link, split>> /\ \A q \in Procs \ {p} : pc'[q] = pc[q]
  BY DEF Quiet, Start, Prepare, PrepareOverStale, Publish, PublishFails, RequestStop, Drain,
     Unpublish,
         PurgeCache, PurgeCacheFails, Goes, TypeOK, lockVars
<1>2. /\ pc[p] \in Running \cup (Unwind \ {"released"})
           <=> pc'[p] \in Running \cup (Unwind \ {"released"})
      /\ pc[p] \in {"none", "starting", "released"} \cup Over
           <=> pc'[p] \in {"none", "starting", "released"} \cup Over
  BY DEF Quiet, Start, Prepare, PrepareOverStale, Publish, PublishFails, RequestStop, Drain,
     Unpublish,
         PurgeCache, PurgeCacheFails, Goes, TypeOK, Running, Unwind, Over
<1>3. ASSUME NEW q \in Procs
      PROVE  /\ q \in held' <=> pc'[q] \in Running \cup (Unwind \ {"released"})
             /\ fd'[q] = None <=> pc'[q] \in {"none", "starting", "released"} \cup Over
  BY <1>1, <1>2 DEF LockInv
<1> QED
  BY <1>1, <1>3 DEF LockInv

-----------------------------------------------------------------------------
(* Steps on the lock.                                                       *)
LockStep(p) == OpenLock(p) \/ Flock(p) \/ Refuse(p) \/ Release(p) \/ Unlink(p) \/ Crash(p)

LEMMA LockType ==
  ASSUME TypeOK, NEW p \in Procs, LockStep(p)
  PROVE  TypeOK'
<1>1. pc' \in [Procs -> PcSet]
  BY DEF LockStep, OpenLock, Flock, Refuse, Release, Unlink, Crash,
         Goes, TypeOK, PcSet, Before, Running, Unwind, Over
<1>2. link' \in Procs \cup {None} /\ split' \in BOOLEAN /\ held' \subseteq Procs
  BY DEF LockStep, OpenLock, Flock, Refuse, Release, Unlink, Crash, TypeOK
<1>3. fd' \in [Procs -> Procs \cup {None}]
  BY <1>2 DEF LockStep, OpenLock, Flock, Refuse, Release, Unlink, Crash, TypeOK
<1>4. UNCHANGED <<stateFile, cacheVars>>
  BY DEF LockStep, OpenLock, Flock, Refuse, Release, Unlink, Crash
<1> QED
  BY <1>1, <1>2, <1>3, <1>4 DEF TypeOK, PcSet

(* The first two conjuncts of LockInv are about one process.                *)
LEMMA LockStates ==
  ASSUME TypeOK, LockInv, NEW p \in Procs, LockStep(p), NEW q \in Procs
  PROVE  /\ q \in held' <=> pc'[q] \in Running \cup (Unwind \ {"released"})
         /\ fd'[q] = None <=> pc'[q] \in {"none", "starting", "released"} \cup Over
<1>1. CASE q # p
  <2>1. pc'[q] = pc[q] /\ fd'[q] = fd[q] /\ (q \in held' <=> q \in held)
    BY <1>1 DEF LockStep, OpenLock, Flock, Refuse, Release, Unlink, Crash, Goes, TypeOK
  <2> QED
    BY <2>1 DEF LockInv
<1>2. CASE q = p
  <2>1. CASE OpenLock(p)
    <3>1. /\ pc[p] = "starting" /\ pc'[p] = "opened" /\ fd'[p] # None /\ held' = held
      BY <2>1 DEF OpenLock, Goes, TypeOK
    <3> QED
      BY <1>2, <3>1 DEF LockInv, Running, Unwind, Over
  <2>2. CASE Flock(p)
    <3>1. pc[p] = "opened" /\ pc'[p] = "locked" /\ fd'[p] = fd[p] /\ p \in held'
      BY <2>2 DEF Flock, Goes, TypeOK
    <3> QED
      BY <1>2, <3>1 DEF LockInv, Running, Unwind, Over
  <2>3. CASE Refuse(p)
    <3>1. pc[p] = "opened" /\ pc'[p] = "refused" /\ fd'[p] = None /\ held' = held
      BY <2>3 DEF Refuse, Goes, TypeOK
    <3> QED
      BY <1>2, <3>1 DEF LockInv, Running, Unwind, Over
  <2>4. CASE Release(p)
    <3>1. pc'[p] = "released" /\ fd'[p] = None /\ p \notin held'
      BY <2>4 DEF Release, Goes, TypeOK
    <3> QED
      BY <1>2, <3>1 DEF Running, Unwind, Over
  <2>5. CASE Unlink(p)
    <3>1. pc[p] = "released" /\ pc'[p] = "exited" /\ fd'[p] = fd[p] /\ held' = held
      BY <2>5 DEF Unlink, Goes, TypeOK
    <3> QED
      BY <1>2, <3>1 DEF LockInv, Running, Unwind, Over
  <2>6. CASE Crash(p)
    <3>1. pc'[p] = "dead" /\ fd'[p] = None /\ p \notin held'
      BY <2>6 DEF Crash, TypeOK
    <3> QED
      BY <1>2, <3>1 DEF Running, Unwind, Over
  <2> QED
    BY <2>1, <2>2, <2>3, <2>4, <2>5, <2>6 DEF LockStep
<1> QED
  BY <1>1, <1>2

LEMMA LockExclusive ==
  ASSUME TypeOK, LockInv, NEW p \in Procs, LockStep(p)
  PROVE  \A q, r \in held' : fd'[q] = fd'[r] => q = r
<1>1. CASE OpenLock(p)
  <2>1. p \notin held /\ held' = held /\ \A q \in held : fd'[q] = fd[q]
    BY <1>1 DEF OpenLock, Goes, TypeOK, LockInv, Running, Unwind
  <2> QED
    BY <2>1 DEF LockInv
<1>2. CASE Flock(p)
  BY <1>2 DEF Flock, Locked, LockInv
<1>3. CASE Refuse(p)
  <2>1. p \notin held /\ held' = held /\ \A q \in held : fd'[q] = fd[q]
    BY <1>3 DEF Refuse, Goes, TypeOK, LockInv, Running, Unwind
  <2> QED
    BY <2>1 DEF LockInv
<1>4. CASE Release(p) \/ Crash(p)
  <2>1. held' = held \ {p} /\ \A q \in held' : fd'[q] = fd[q]
    BY <1>4 DEF Release, Crash, TypeOK
  <2> QED
    BY <2>1 DEF LockInv
<1>5. CASE Unlink(p)
  BY <1>5 DEF Unlink, LockInv
<1> QED
  BY <1>1, <1>2, <1>3, <1>4, <1>5 DEF LockStep

LEMMA LockLinked ==
  ASSUME TypeOK, LockInv, NEW p \in Procs, LockStep(p), ~split'
  PROVE  \A q \in held' : fd'[q] = link'
<1>1. ~split /\ \A q \in held : fd[q] = link
  BY DEF LockStep, OpenLock, Flock, Refuse, Release, Unlink, Crash, LockInv, TypeOK
<1>2. CASE OpenLock(p)
  <2>1. p \notin held /\ held' = held /\ \A q \in held : fd'[q] = fd[q]
    BY <1>2 DEF OpenLock, Goes, TypeOK, LockInv, Running, Unwind
  <2>2. \A q \in held : fd[q] # None
    BY DEF LockInv, TypeOK, Running, Unwind, Over
  <2>3. held # {} => link' = link
    BY <1>1, <1>2, <2>2 DEF OpenLock
  <2> QED
    BY <1>1, <2>1, <2>3
<1>3. CASE Flock(p)
  BY <1>1, <1>3 DEF Flock, TypeOK
<1>4. CASE Refuse(p)
  <2>1. p \notin held /\ held' = held /\ link' = link /\ \A q \in held : fd'[q] = fd[q]
    BY <1>4 DEF Refuse, Goes, TypeOK, LockInv, Running, Unwind
  <2> QED
    BY <1>1, <2>1
<1>5. CASE Release(p) \/ Crash(p)
  <2>1. held' = held \ {p} /\ link' = link /\ \A q \in held' : fd'[q] = fd[q]
    BY <1>5 DEF Release, Crash, TypeOK
  <2> QED
    BY <1>1, <2>1
<1>6. CASE Unlink(p)
  <2>1. held' = held /\ \A q \in held : fd[q] # link
    BY <1>6 DEF Unlink
  <2> QED
    BY <1>1, <2>1
<1> QED
  BY <1>2, <1>3, <1>4, <1>5, <1>6 DEF LockStep

LEMMA LockInvLockStep ==
  ASSUME TypeOK, LockInv, NEW p \in Procs, LockStep(p)
  PROVE  LockInv'
  BY LockStates, LockExclusive, LockLinked DEF LockInv

-----------------------------------------------------------------------------
LEMMA Exclusion == LockInv => OneOwner
  BY DEF LockInv, OneOwner

LEMMA StepKinds ==
  ASSUME NEW p \in Procs, Start(p) \/ Startup(p) \/ RequestStop(p) \/ Shutdown(p) \/ Crash(p)
  PROVE  Quiet(p) \/ LockStep(p)
  BY DEF Startup, Shutdown, Quiet, LockStep

LEMMA PublishedStep ==
  ASSUME SInv, NEW p \in Procs, Quiet(p) \/ LockStep(p), LockInv'
  PROVE  ServingIsPublished'
<1> SUFFICES ASSUME ~split', NEW q \in Procs, pc'[q] = "serving"
             PROVE  stateFile' = q
  BY DEF ServingIsPublished
<1>1. ~split /\ pc \in [Procs -> PcSet]
  BY DEF Quiet, Start, Prepare, PrepareOverStale, Publish, PublishFails, RequestStop, Drain,
     Unpublish, PurgeCache,
         PurgeCacheFails, lockVars, LockStep, OpenLock, Flock, Refuse, Release, Unlink, Crash, SInv,
         TypeOK, PcSet
<1>2. CASE pc[q] = "serving"
  <2>1. stateFile = q /\ q \in held
    BY <1>1, <1>2 DEF SInv, ServingIsPublished, LockInv, Running
  <2>2. p \in held => p = q
    BY <1>1, <2>1, Exclusion DEF SInv, OneOwner
  <2>3. ~Publish(p) /\ ~Unpublish(p)
    BY <1>1, <1>2, <2>2 DEF Publish, Unpublish, Goes, SInv, LockInv, Running, Unwind
  <2>4. stateFile' = stateFile
    BY <2>3 DEF Quiet, Start, Prepare, PrepareOverStale, PublishFails, RequestStop, Drain,
       PurgeCache,
         PurgeCacheFails, LockStep, OpenLock, Flock, Refuse, Release, Unlink, Crash
  <2> QED
    BY <2>1, <2>4
<1>3. CASE pc[q] # "serving"
  <2>1. Publish(p) /\ p = q
    BY <1>1, <1>3 DEF Quiet, Start, Prepare, PrepareOverStale, Publish, PublishFails,
       RequestStop, Drain, Unpublish,
         PurgeCache, PurgeCacheFails, LockStep, OpenLock, Flock, Refuse, Release, Unlink, Crash, Goes
  <2> QED
    BY <2>1 DEF Publish
<1> QED
  BY <1>2, <1>3

LEMMA SInvStep ==
  ASSUME SInv, NEW p \in Procs, Quiet(p) \/ LockStep(p)
  PROVE  SInv'
  BY QuietType, QuietLock, LockType, LockInvLockStep, PublishedStep DEF SInv

LEMMA SInvStutter ==
  SInv /\ UNCHANGED <<pc, lockVars, stateFile>> /\ cache' \subseteq Procs /\ kept' \in BOOLEAN => SInv'
  BY DEF SInv, TypeOK, LockInv, ServingIsPublished, lockVars

LEMMA SInvNext == SInv /\ [Next]_daemonVars => SInv'
<1> SUFFICES ASSUME SInv, [Next]_daemonVars PROVE SInv'
  OBVIOUS
<1>1. CASE UNCHANGED daemonVars
  <2>1. UNCHANGED <<pc, lockVars, stateFile>> /\ cache' \subseteq Procs /\ kept' \in BOOLEAN
    BY <1>1 DEF daemonVars, lockVars, SInv, TypeOK
  <2> QED
    BY <2>1, SInvStutter
<1>2. CASE Next
  BY <1>2, StepKinds, SInvStep DEF Next
<1> QED
  BY <1>1, <1>2

(* Without a lock on an unlinked file, one daemon owns the directory.       *)
THEOREM SingleOwner == Spec => []OneOwner
<1>1. SInv => OneOwner
  BY Exclusion DEF SInv
<1> QED
  BY <1>1, SInvInit, SInvNext, PTL DEF Spec

(* ... and the state file describes the daemon that serves.                 *)
THEOREM StateFileRight == Spec => []ServingIsPublished
<1>1. SInv => ServingIsPublished
  BY DEF SInv
<1> QED
  BY <1>1, SInvInit, SInvNext, PTL DEF Spec

-----------------------------------------------------------------------------
LEMMA CacheStep ==
  ASSUME DInv, NEW p \in Procs, Quiet(p) \/ LockStep(p)
  PROVE  CacheIsOwn'
<1> SUFFICES ASSUME ~split', NEW q \in Procs, pc'[q] \in {"prepared", "serving", "draining"}
             PROVE  q \in cache' /\ (cache' = {q} \/ kept')
  BY DEF CacheIsOwn
<1>1. ~split /\ pc \in [Procs -> PcSet]
  BY DEF Quiet, Start, Prepare, PrepareOverStale, Publish, PublishFails, RequestStop, Drain,
     Unpublish, PurgeCache,
         PurgeCacheFails, lockVars, LockStep, OpenLock, Flock, Refuse, Release, Unlink, Crash, DInv,
         SInv, TypeOK, PcSet
<1>2. CASE pc[q] \in {"prepared", "serving", "draining"}
  <2>1. q \in cache /\ (cache = {q} \/ kept) /\ q \in held
    BY <1>1, <1>2 DEF DInv, SInv, CacheIsOwn, LockInv, Running
  <2>2. p \in held => p = q
    BY <1>1, <2>1, Exclusion DEF DInv, SInv, OneOwner
  <2>3. ~Prepare(p) /\ ~PrepareOverStale(p) /\ ~PurgeCache(p)
    BY <1>1, <1>2, <2>2 DEF Prepare, PrepareOverStale, PurgeCache, Goes, DInv, SInv, LockInv,
       Running, Unwind
  <2>4. cache' = cache /\ kept' = kept
    BY <2>3 DEF Quiet, Start, Publish, PublishFails, RequestStop, Drain, Unpublish,
         PurgeCacheFails, LockStep, OpenLock, Flock, Refuse, Release, Unlink, Crash
  <2> QED
    BY <2>1, <2>4
<1>3. CASE pc[q] \notin {"prepared", "serving", "draining"}
  <2>1. (Prepare(p) \/ PrepareOverStale(p)) /\ p = q
    BY <1>1, <1>3 DEF Quiet, Start, Prepare, PrepareOverStale, Publish, PublishFails,
       RequestStop, Drain, Unpublish,
         PurgeCache, PurgeCacheFails, LockStep, OpenLock, Flock, Refuse, Release, Unlink, Crash, Goes
  <2> QED
    BY <2>1 DEF Prepare, PrepareOverStale
<1> QED
  BY <1>2, <1>3

LEMMA DInvInit == Init => DInv
  BY SInvInit DEF Init, DInv, CacheIsOwn

LEMMA DInvNext == DInv /\ [Next]_daemonVars => DInv'
<1> SUFFICES ASSUME DInv, [Next]_daemonVars PROVE DInv'
  OBVIOUS
<1>1. SInv'
  BY SInvNext DEF DInv
<1>2. CASE UNCHANGED daemonVars
  BY <1>1, <1>2 DEF DInv, CacheIsOwn, daemonVars, lockVars
<1>3. CASE Next
  BY <1>1, <1>3, StepKinds, CacheStep DEF Next, DInv
<1> QED
  BY <1>2, <1>3

(* The whole inductive invariant.                                           *)
THEOREM DaemonInductive == Spec => []DInv
  BY DInvInit, DInvNext, PTL DEF Spec

(* ... and the cache holds the data of the running daemon only.             *)
THEOREM CacheNotMixed == Spec => []CacheIsOwn
<1>1. DInv => CacheIsOwn
  BY DEF DInv
<1> QED
  BY <1>1, DaemonInductive, PTL
=============================================================================
