---------------------------- MODULE PluginProofs ----------------------------
(***************************************************************************)
(* What the launcher may rely on: with the plugin's sweep running beside   *)
(* the daemons, and through restarts of IINA, crashes and upgrades, a      *)
(* launch ends with the one daemon that owns the directory.                *)
(***************************************************************************)
EXTENDS Plugin, DaemonProofs

USE PluginAssumption DEF cacheVars

(* The health check under way, and the legacy daemon to stop, are about a   *)
(* process.                                                                 *)
SeenInv == seen \in Procs \cup {None} /\ (launch = "retire" => seen \in Procs)

LEMMA SeenNext == TypeOK /\ SeenInv /\ [PluginNext]_vars => SeenInv'
<1> SUFFICES ASSUME TypeOK, SeenInv, [PluginNext]_vars PROVE SeenInv'
  OBVIOUS
<1>1. State \in Procs \cup {None} /\ LegacyState \in Procs \cup {None}
  BY DEF State, LegacyState, TypeOK
<1>2. Look => SeenInv'
  BY <1>1 DEF Look, SeenInv
<1>3. \A port : Settle(port) => SeenInv'
  BY DEF Settle, SeenInv
<1>4. CheckExit => SeenInv'
  BY <1>3 DEF CheckExit, NextTick, NextAttempt, SeenInv
<1>5. CASE Call
  BY <1>2, <1>5 DEF Call, SeenInv
<1>6. CASE CachedAnswer \/ SpawnFails \/ ProbeAnswer
  BY <1>2, <1>3, <1>4, <1>6 DEF CachedAnswer, SpawnFails, ProbeAnswer
<1>7. CASE AttachAnswer
  BY <1>1, <1>3, <1>7 DEF AttachAnswer, SeenInv
<1>8. CASE Poll
  BY <1>1, <1>4, <1>8 DEF Poll, SeenInv
<1>9. CASE RetirePost \/ LockWait \/ Spawn \/ Quit
  BY <1>9 DEF RetirePost, LockWait, WaitEnds, Spawn, Quit, SeenInv
<1>10. CASE UNCHANGED launcher
  BY <1>10 DEF launcher, SeenInv
<1> QED
  BY <1>5, <1>6, <1>7, <1>8, <1>9, <1>10 DEF PluginNext, vars, LauncherStep, Quit,
     Relaunch, SweepCheck, SweepRemove, LegacyStart, DaemonStep, IdleOut

(* A step of the plugin is a step of the daemons, or touches the cache only. *)
LEMMA PluginStep ==
  ASSUME TypeOK, SeenInv, [PluginNext]_vars
  PROVE  \/ [Next]_daemonVars
         \/ UNCHANGED <<pc, lockVars, stateFile>> /\ cache' \subseteq Procs /\ kept' \in BOOLEAN
<1>1. CASE UNCHANGED vars
  BY <1>1 DEF vars
<1>2. CASE Call \/ Quit \/ Relaunch \/ SweepCheck
  BY <1>2 DEF Call, Quit, Relaunch, SweepCheck
<1>3. CASE SweepRemove
  BY <1>3 DEF SweepRemove, lockVars
<1>4. CASE LegacyStart
  BY <1>4 DEF LegacyStart, Next
<1>5. CASE DaemonStep
  BY <1>5 DEF DaemonStep, Next, Proceed
<1>6. CASE \E p \in Procs : IdleOut(p)
  BY <1>6 DEF IdleOut, Next
<1>7. CASE LauncherStep
  <2>1. CASE CachedAnswer \/ AttachAnswer \/ LockWait \/ SpawnFails \/ Poll \/ ProbeAnswer
    BY <2>1 DEF CachedAnswer, AttachAnswer, LockWait, SpawnFails, Poll, ProbeAnswer
  <2>2. CASE Spawn
    BY <2>2 DEF Spawn, Next
  <2>3. CASE RetirePost
    <3>1. seen \in Procs
      BY <2>3 DEF RetirePost, SeenInv
    <3> QED
      BY <2>3, <3>1 DEF RetirePost, Next
  <2> QED
    BY <1>7, <2>1, <2>2, <2>3 DEF LauncherStep
<1> QED
  BY <1>1, <1>2, <1>3, <1>4, <1>5, <1>6, <1>7 DEF PluginNext

PInv == SInv /\ SeenInv

LEMMA PInvInit == PluginInit => PInv
  BY SInvInit DEF PluginInit, PInv, SeenInv

LEMMA PInvNext == PInv /\ [PluginNext]_vars => PInv'
<1> SUFFICES ASSUME SInv, SeenInv, [PluginNext]_vars PROVE SInv' /\ SeenInv'
  BY DEF PInv
<1>1. \/ [Next]_daemonVars
      \/ UNCHANGED <<pc, lockVars, stateFile>> /\ cache' \subseteq Procs /\ kept' \in BOOLEAN
  BY PluginStep DEF SInv
<1> QED
  BY <1>1, SInvNext, SInvStutter, SeenNext DEF SInv

(* The invariant of the daemons survives everything the plugin does.        *)
THEOREM PluginInductive == PluginSpec => []PInv
  BY PInvInit, PInvNext, PTL DEF PluginSpec

-----------------------------------------------------------------------------
SweepState == sweep \in {"idle", "removing"} /\ met \subseteq Procs

(* The counters of the launcher's loops, in the state the loop is in.       *)
LauncherInv ==
  /\ iina \in BOOLEAN /\ SweepState /\ ahead \subseteq Procs
  /\ launch \in Launch
  /\ {cachedPort, seen, child, retired} \subseteq Procs \cup {None}
  /\ attempt \in 1..Attempts /\ tick \in 0..(Polls + Waits) /\ exitedAt \in -1..Polls
  /\ launch = "lockWait" => tick <= Waits
  /\ launch \in {"poll", "probe"} => tick < Polls

(* What a step of the launcher itself has to keep.                          *)
LauncherState ==
  /\ ahead \subseteq Procs
  /\ launch \in Launch
  /\ {cachedPort, seen, child, retired} \subseteq Procs \cup {None}
  /\ attempt \in 1..Attempts /\ tick \in 0..(Polls + Waits) /\ exitedAt \in -1..Polls
  /\ launch = "lockWait" => tick <= Waits
  /\ launch \in {"poll", "probe"} => tick < Polls

LEMMA LauncherParts ==
  LauncherInv <=> LauncherState /\ iina \in BOOLEAN /\ SweepState
BY DEF LauncherInv, LauncherState

LEMMA SettleState ==
  ASSUME LauncherState, NEW port \in Procs \cup {None}, Settle(port)
  PROVE  LauncherState'
BY DEF Settle, LauncherState, Launch

LEMMA LookState ==
  ASSUME TypeOK, LauncherState, Look
  PROVE  LauncherState'
BY DEF Look, LauncherState, local, history, Launch, State, LegacyState, TypeOK

LEMMA NextTickState ==
  ASSUME LauncherState, launch \in {"poll", "probe"}, NEW at \in -1..Polls, NextTick(at)
  PROVE  LauncherState'
<1>1. CASE tick + 1 = Polls
  BY <1>1, SettleState DEF NextTick, LauncherState
<1>2. CASE tick + 1 # Polls
  BY <1>2 DEF NextTick, LauncherState, Launch, history
<1> QED
  BY <1>1, <1>2

LEMMA CheckExitState ==
  ASSUME LauncherState, launch \in {"poll", "probe"}, CheckExit
  PROVE  LauncherState'
<1>1. cachedPort \in Procs \cup {None} /\ tick \in -1..Polls /\ exitedAt \in -1..Polls
  BY DEF LauncherState
<1>2. ASSUME NextAttempt PROVE LauncherState'
  <2>1. CASE attempt = Attempts
    BY <1>1, <1>2, <2>1, SettleState DEF NextAttempt
  <2>2. CASE attempt # Attempts
    BY <1>2, <2>2 DEF NextAttempt, LauncherState, Launch, history
  <2> QED
    BY <2>1, <2>2
<1> QED
  BY <1>1, <1>2, SettleState, NextTickState DEF CheckExit

LEMMA LauncherNext ==
  ASSUME TypeOK, LauncherInv, [PluginNext]_vars
  PROVE  LauncherInv'
<1>0. LauncherState /\ iina \in BOOLEAN /\ SweepState
  BY LauncherParts
<1>1. State \in Procs \cup {None} /\ LegacyState \in Procs \cup {None}
  BY DEF State, LegacyState, TypeOK
<1>2. ASSUME LauncherState', UNCHANGED <<iina, sweepVars>> PROVE LauncherInv'
  BY <1>0, <1>2 DEF LauncherInv, LauncherState, SweepState, sweepVars
<1>3. CASE Call
  <2>1. CASE Look
    BY <1>0, <1>2, <1>3, <2>1, LookState DEF Call
  <2>2. CASE launch' = "cached" /\ UNCHANGED <<cachedPort, seen, local, history>>
    BY <1>0, <1>2, <1>3, <2>2 DEF Call, LauncherState, local, history, Launch
  <2> QED
    BY <1>3, <2>1, <2>2 DEF Call
<1>4. CASE CachedAnswer
  <2>1. cachedPort \in Procs \cup {None}
    BY <1>0 DEF LauncherState
  <2> QED
    BY <1>0, <1>2, <1>4, <2>1, LookState, SettleState DEF CachedAnswer
<1>5. CASE AttachAnswer
  <2>1. seen \in Procs \cup {None}
    BY <1>0 DEF LauncherState
  <2>2. CASE Healthy(seen)
    BY <1>0, <1>2, <1>5, <2>1, <2>2, SettleState DEF AttachAnswer
  <2>3. CASE ~Healthy(seen)
    BY <1>0, <1>1, <1>2, <1>5, <2>3 DEF AttachAnswer, LauncherState, local, history, Launch
  <2> QED
    BY <2>2, <2>3
<1>6. CASE RetirePost
  BY <1>0, <1>2, <1>6 DEF RetirePost, LauncherState, Launch
<1>7. CASE LockWait
  BY <1>0, <1>2, <1>7 DEF LockWait, WaitEnds, CameToLock, LauncherState, Launch, history
<1>8. CASE Spawn
  BY <1>0, <1>2, <1>8 DEF Spawn, LauncherState, Launch, history
<1>9. CASE SpawnFails
  <2>1. cachedPort \in Procs \cup {None}
    BY <1>0 DEF LauncherState
  <2> QED
    BY <1>0, <1>2, <1>9, <2>1, SettleState DEF SpawnFails
<1>10. CASE Poll
  <2>1. CASE launch' = "probe" /\ seen' = State /\ UNCHANGED <<cachedPort, local, history>>
    BY <1>0, <1>1, <1>2, <1>10, <2>1 DEF Poll, LauncherState, local, history, Launch
  <2> QED
    BY <1>0, <1>2, <1>10, <2>1, CheckExitState DEF Poll
<1>11. CASE ProbeAnswer
  <2>1. seen \in Procs \cup {None}
    BY <1>0 DEF LauncherState
  <2> QED
    BY <1>0, <1>2, <1>11, <2>1, CheckExitState, SettleState DEF ProbeAnswer
<1>12. CASE Quit
  <2>1. iina' = FALSE /\ SweepState'
    BY <1>0, <1>12 DEF Quit, SweepState, sweepVars
  <2>2. /\ retired' = None /\ ahead' = {} /\ launch' = "idle" /\ cachedPort' = None /\ seen' = None
        /\ child' = None /\ attempt' = 1 /\ tick' = 0 /\ exitedAt' = -1
    BY <1>12 DEF Quit
  <2>3. LauncherState'
    BY <2>2 DEF LauncherState, Launch
  <2> QED
    BY <1>0, <2>1, <2>3 DEF LauncherInv, LauncherState
<1>13. CASE UNCHANGED launcher /\ iina' \in BOOLEAN /\ SweepState'
  BY <1>13 DEF launcher, local, history, LauncherInv
<1>14. CASE Relaunch \/ SweepCheck \/ SweepRemove \/ LegacyStart \/ DaemonStep
            \/ (\E p \in Procs : IdleOut(p)) \/ UNCHANGED vars
  BY <1>0, <1>13, <1>14 DEF Relaunch, SweepCheck, SweepRemove, LegacyStart, DaemonStep,
     IdleOut, vars, sweepVars, SweepState, CameToLock
<1> QED
  BY <1>3, <1>4, <1>5, <1>6, <1>7, <1>8, <1>9, <1>10, <1>11, <1>12, <1>14
     DEF PluginNext, LauncherStep

(* Every variable of the launcher keeps its type, and with it every loop    *)
(* its bound, for any numbers of attempts and polls.                        *)
THEOREM PluginTypeCorrect == PluginSpec => []PluginTypeOK
<1>1. PluginInit => LauncherInv
  BY DEF PluginInit, LauncherInv, SweepState, Launch
<1>2. PInv => TypeOK
  BY DEF PInv, SInv
<1>3. TypeOK /\ LauncherInv => PluginTypeOK
  BY DEF LauncherInv, SweepState, PluginTypeOK
<1>4. TypeOK /\ LauncherInv /\ [PluginNext]_vars => LauncherInv'
  BY LauncherNext
<1> QED
  BY <1>1, <1>2, <1>3, <1>4, PluginInductive, PTL DEF PluginSpec

(* The singleton and the state file, next to the plugin.                    *)
THEOREM PluginKeepsSingleton == PluginSpec => [](OneOwner /\ ServingIsPublished)
<1>1. PInv => OneOwner /\ ServingIsPublished
  BY Exclusion DEF PInv, SInv
<1> QED
  BY <1>1, PluginInductive, PTL

(* An answer follows a health check of the very port it gives.              *)
LEMMA AnsweredHealthy ==
  ASSUME [PluginNext]_vars, Answered
  PROVE  cachedPort' \in {cachedPort, seen} /\ Healthy(cachedPort')
<1>1. CachedAnswer \/ AttachAnswer \/ SpawnFails \/ Poll \/ ProbeAnswer
  BY DEF Answered, PluginNext, vars, launcher, LauncherStep, Call, Look, RetirePost, LockWait,
     WaitEnds,
     Spawn, Quit, Relaunch, SweepCheck, SweepRemove, LegacyStart, DaemonStep, IdleOut
<1>2. CheckExit /\ launch' = "idle" => cachedPort' = cachedPort
  BY DEF CheckExit, NextTick, NextAttempt, Settle
<1>3. CASE CachedAnswer
  BY <1>3 DEF CachedAnswer, Answered, Settle, Look
<1>4. CASE AttachAnswer
  BY <1>4 DEF AttachAnswer, Answered, Settle
<1>5. CASE SpawnFails
  BY <1>5 DEF SpawnFails, Answered, Settle
<1>6. CASE Poll
  BY <1>2, <1>6 DEF Poll, Answered
<1>7. CASE ProbeAnswer
  BY <1>2, <1>7 DEF ProbeAnswer, Answered, Settle
<1> QED
  BY <1>1, <1>3, <1>4, <1>5, <1>6, <1>7

(* A launch is answered only with a daemon that serves, is the one the      *)
(* state file describes, and is the only owner of the directory.            *)
THEOREM LaunchRight == PluginSpec => LaunchFindsOwner
<1>1. ASSUME SInv, SeenInv, PluginTypeOK, [PluginNext]_vars, Answered
      PROVE  /\ pc[cachedPort'] = "serving"
             /\ ~split => stateFile = cachedPort' /\ held = {cachedPort'}
  <2>1. cachedPort' \in Procs /\ pc[cachedPort'] = "serving"
    BY <1>1, AnsweredHealthy DEF Healthy, SeenInv, PluginTypeOK
  <2>2. cachedPort' \in held
    BY <1>1, <2>1 DEF SInv, LockInv, Running
  <2>3. ~split => stateFile = cachedPort'
    BY <1>1, <2>1 DEF SInv, ServingIsPublished
  <2>4. ~split => held = {cachedPort'}
    BY <1>1, <2>2, Exclusion DEF SInv, OneOwner
  <2> QED
    BY <2>1, <2>3, <2>4
<1>2. PInv /\ PluginTypeOK /\ [PluginNext]_vars =>
        [Answered => /\ pc[cachedPort'] = "serving"
                     /\ ~split => stateFile = cachedPort' /\ held = {cachedPort'}]_vars
  BY <1>1 DEF PInv
<1> QED
  BY <1>2, PluginInductive, PluginTypeCorrect, PTL DEF PluginSpec, LaunchFindsOwner
-----------------------------------------------------------------------------
(* Why waiting for the lock file pays.  A process is unborn until it has a  *)
(* lock file; whatever the files name, and whoever created a file that is   *)
(* open, is not, so a file created now is one nobody had open before.       *)
Unborn == {"none", "starting"}

FilesInv ==
  /\ stateFile # None => pc[stateFile] \notin Unborn
  /\ link # None => pc[link] \notin Unborn
  /\ \A p \in Procs : fd[p] # None => pc[fd[p]] \notin Unborn

(* Where a launch keeps a child, and whom it retires.                       *)
Spawning == {"spawn", "poll", "probe"}

RetireInv ==
  /\ launch \notin {"poll", "probe"} => child = None
  /\ launch \notin Spawning => ahead = {}
  /\ launch = "retire" => seen \in Procs /\ pc[seen] \notin Unborn
  /\ launch = "lockWait" => retired \in Procs /\ pc[retired] \notin Unborn

(* Those that were ahead when the lock file was gone have nothing open that *)
(* a later process has, or will have.                                       *)
AheadInv ==
  ahead # {} =>
    /\ retired \in ahead /\ child \notin ahead /\ ahead \subseteq Procs
    /\ \A p \in ahead : pc[p] \notin Unborn /\ (fd[p] # None => fd[p] # link)
    /\ \A p \in ahead, q \in Procs \ ahead : fd[q] # None => fd[p] # fd[q]
    /\ ~split => held \cap ahead = {}

(* And so for those that had come to the lock file when the sweep saw none. *)
MetInv ==
  /\ met \subseteq Procs
  /\ \A p \in met : pc[p] \notin Unborn /\ (fd[p] # None => fd[p] # link)
  /\ ~split => held \cap met = {}

RInv == FilesInv /\ RetireInv /\ AheadInv /\ MetInv

(* How a process moves on with the files.                                   *)
Moves(p) ==
  /\ \A q \in Procs \ {p} : pc'[q] = pc[q] /\ fd'[q] = fd[q]
  /\ pc'[p] \in Unborn => pc[p] = "none"
  /\ \/ fd'[p] \in {fd[p], None} /\ link' \in {link, None}
     \/ /\ pc[p] = "starting" /\ pc'[p] \notin Unborn
        /\ fd'[p] = link' /\ link' = IF link = None THEN p ELSE link
  /\ stateFile' \in {stateFile, None} \/ (stateFile' = p /\ pc'[p] \notin Unborn)
  /\ split => split'
  /\ held' \subseteq held \/ (held' = held \cup {p} /\ fd[p] # None /\ (fd[p] # link => split'))

LEMMA ProcessMoves ==
  ASSUME TypeOK, LockInv, Next
  PROVE  \E p \in Procs : Moves(p)
<1>1. PICK p \in Procs : Quiet(p) \/ LockStep(p)
  BY StepKinds DEF Next
<1> USE DEF Unborn
<1>2. CASE Quiet(p)
  <2>1. \/ Goes(p, "none", "starting")
        \/ Goes(p, "locked", "prepared") \/ Goes(p, "prepared", "serving")
        \/ Goes(p, "prepared", "closed") \/ Goes(p, "serving", "draining")
        \/ Goes(p, "draining", "closed") \/ Goes(p, "closed", "unpublished")
        \/ Goes(p, "unpublished", "purged")
    BY <1>2 DEF Quiet, Start, Prepare, PrepareOverStale, Publish, PublishFails, RequestStop, Drain,
       Unpublish, PurgeCache, PurgeCacheFails
  <2>2. (\A q \in Procs \ {p} : pc'[q] = pc[q]) /\ (pc'[p] \in Unborn => pc[p] = "none")
    BY <2>1 DEF Goes, TypeOK
  <2>3. UNCHANGED <<fd, held, link, split>>
    BY <1>2 DEF Quiet, Start, Prepare, PrepareOverStale, Publish, PublishFails, RequestStop, Drain,
       Unpublish, PurgeCache, PurgeCacheFails, lockVars
  <2>4. stateFile' \in {stateFile, None} \/ (stateFile' = p /\ pc'[p] = "serving")
    BY <1>2 DEF Quiet, Start, Prepare, PrepareOverStale, Publish, PublishFails, RequestStop, Drain,
       Unpublish, PurgeCache, PurgeCacheFails, Goes, TypeOK
  <2> QED
    BY <2>2, <2>3, <2>4 DEF Moves
<1>3. CASE LockStep(p)
  <2>1. stateFile' = stateFile
    BY <1>3 DEF LockStep, OpenLock, Flock, Refuse, Release, Unlink, Crash
  <2>2. (\A q \in Procs \ {p} : pc'[q] = pc[q] /\ fd'[q] = fd[q]) /\ pc'[p] \notin Unborn
    BY <1>3 DEF LockStep, OpenLock, Flock, Refuse, Release, Unlink, Crash, Goes, TypeOK
  <2>3. \/ fd'[p] \in {fd[p], None} /\ link' \in {link, None}
        \/ /\ pc[p] = "starting" /\ fd'[p] = link' /\ link' = IF link = None THEN p ELSE link
    BY <1>3 DEF LockStep, OpenLock, Flock, Refuse, Release, Unlink, Crash, Goes, TypeOK
  <2>4. held' \subseteq held \/ (held' = held \cup {p} /\ fd[p] # None /\ (fd[p] # link => split'))
    <3>1. CASE Flock(p)
      <4>1. pc[p] = "opened" /\ held' = held \cup {p} /\ (fd[p] # link => split')
        BY <3>1 DEF Flock, Goes
      <4> QED
        BY <4>1 DEF LockInv, Over
    <3>2. CASE ~Flock(p)
      BY <1>3, <3>2 DEF LockStep, OpenLock, Refuse, Release, Unlink, Crash
    <3> QED
      BY <3>1, <3>2
  <2>5. split => split'
    <3>1. CASE OpenLock(p) \/ Refuse(p) \/ Release(p) \/ Crash(p)
      BY <3>1 DEF OpenLock, Refuse, Release, Crash
    <3>2. CASE Flock(p) \/ Unlink(p)
      BY <3>2 DEF Flock, Unlink
    <3> QED
      BY <1>3, <3>1, <3>2 DEF LockStep
  <2> QED
    BY <2>1, <2>2, <2>3, <2>4, <2>5 DEF Moves
<1> QED
  BY <1>1, <1>2, <1>3

LEMMA FilesStep ==
  ASSUME TypeOK, FilesInv, NEW p \in Procs, Moves(p)
  PROVE  FilesInv'
<1>1. /\ stateFile \in Procs \cup {None} /\ link \in Procs \cup {None}
      /\ \A q \in Procs : fd[q] \in Procs \cup {None}
  BY DEF TypeOK
<1>2. \A q \in Procs : pc[q] \notin Unborn => pc'[q] \notin Unborn
  BY DEF Moves, Unborn
<1>3. stateFile' # None => pc'[stateFile'] \notin Unborn
  BY <1>1, <1>2 DEF FilesInv, Moves
<1>4. link' # None => pc'[link'] \notin Unborn
  BY <1>1, <1>2 DEF FilesInv, Moves
<1>5. ASSUME NEW q \in Procs, fd'[q] # None PROVE pc'[fd'[q]] \notin Unborn
  <2>1. CASE fd'[q] = fd[q]
    BY <1>1, <1>2, <1>5, <2>1 DEF FilesInv
  <2>2. CASE fd'[q] = link'
    BY <1>4, <1>5, <2>2
  <2> QED
    BY <1>5, <2>1, <2>2 DEF Moves
<1> QED
  BY <1>3, <1>4, <1>5 DEF FilesInv

(* A process moves, and the launcher waits.                                 *)
LEMMA AheadStep ==
  ASSUME TypeOK, FilesInv, AheadInv, NEW p \in Procs, Moves(p),
         UNCHANGED ahead, UNCHANGED retired, child' \notin ahead
  PROVE  AheadInv'
<1> SUFFICES ASSUME ahead # {} PROVE AheadInv'
  BY DEF AheadInv
<1>1. \A q \in ahead : pc'[q] \notin Unborn /\ fd'[q] \in {fd[q], None}
  BY DEF AheadInv, Moves, Unborn
<1>2. ASSUME NEW q \in ahead, fd[q] # None PROVE fd[q] # link'
  <2>1. q \in Procs /\ fd[q] # link /\ pc[fd[q]] \notin Unborn
    BY <1>2 DEF AheadInv, FilesInv
  <2>2. link' \in {link, None} \/ (link' = p /\ pc[p] \in Unborn)
    BY DEF Moves, Unborn
  <2> QED
    BY <1>2, <2>1, <2>2
<1>3. ASSUME NEW q \in ahead, NEW r \in Procs \ ahead, fd'[r] # None PROVE fd'[q] # fd'[r]
  <2>1. CASE fd'[q] = None
    BY <1>3, <2>1
  <2>2. CASE fd'[q] = fd[q] /\ fd[q] # None /\ fd'[r] = fd[r]
    BY <1>3, <2>2 DEF AheadInv
  <2>3. CASE fd'[q] = fd[q] /\ fd[q] # None /\ fd'[r] = link'
    BY <1>2, <2>3
  <2> QED
    BY <1>1, <1>3, <2>1, <2>2, <2>3 DEF Moves
<1>4. ASSUME ~split' PROVE held' \cap ahead = {}
  <2>1. held \cap ahead = {} /\ (p \in ahead /\ fd[p] # None => fd[p] # link)
    BY <1>4 DEF AheadInv, Moves
  <2> QED
    BY <1>4, <2>1 DEF Moves
<1>5. \A q \in ahead : fd'[q] # None => fd'[q] # link'
  BY <1>1, <1>2
<1>6. retired \in ahead /\ ahead \subseteq Procs
  BY DEF AheadInv
<1> QED
  BY <1>1, <1>3, <1>4, <1>5, <1>6 DEF AheadInv

-----------------------------------------------------------------------------
(* The steps of the launcher in which no process moves: each keeps those    *)
(* that were ahead, or forgets them.                                        *)
Keeps == ahead' = {} \/ (UNCHANGED <<ahead, retired>> /\ child' \in {child, None})

LEMMA AheadKept ==
  ASSUME AheadInv, UNCHANGED <<pc, lockVars>>, Keeps
  PROVE  AheadInv'
BY DaemonAssumption DEF AheadInv, Keeps, lockVars

LEMMA LookRetire ==
  ASSUME TypeOK, FilesInv, RetireInv, launch \notin Spawning, UNCHANGED pc, Look
  PROVE  RetireInv' /\ Keeps
<1>1. LegacyState # None => LegacyState \in Procs /\ pc[LegacyState] \notin Unborn
  BY DEF LegacyState, FilesInv, TypeOK
<1> QED
  BY <1>1 DEF Look, local, history, RetireInv, Spawning, Keeps

LEMMA SettleRetire ==
  ASSUME NEW port, Settle(port)
  PROVE  RetireInv' /\ Keeps
BY DEF Settle, RetireInv, Spawning, Keeps

LEMMA CheckExitRetire ==
  ASSUME RetireInv, launch \in {"poll", "probe"}, CheckExit
  PROVE  RetireInv' /\ Keeps
<1>1. ASSUME NEW at, NextTick(at) PROVE RetireInv' /\ Keeps
  BY <1>1, SettleRetire DEF NextTick, history, RetireInv, Spawning, Keeps
<1>2. ASSUME NextAttempt PROVE RetireInv' /\ Keeps
  BY <1>2, SettleRetire DEF NextAttempt, history, RetireInv, Spawning, Keeps
<1> QED
  BY <1>1, <1>2, SettleRetire DEF CheckExit

LEMMA LaunchRetire ==
  ASSUME TypeOK, FilesInv, RetireInv, UNCHANGED pc,
         Call \/ CachedAnswer \/ AttachAnswer \/ SpawnFails \/ Poll \/ ProbeAnswer \/ Quit
  PROVE  RetireInv' /\ Keeps
<1>1. CASE Call
  <2>1. launch \notin Spawning
    BY <1>1 DEF Call, Spawning
  <2>2. CASE launch' = "cached" /\ UNCHANGED <<cachedPort, seen, local, history>>
    BY <2>1, <2>2 DEF local, history, RetireInv, Spawning, Keeps
  <2> QED
    BY <1>1, <2>1, <2>2, LookRetire DEF Call
<1>2. CASE CachedAnswer
  <2>1. launch \notin Spawning
    BY <1>2 DEF CachedAnswer, Spawning
  <2> QED
    BY <1>2, <2>1, LookRetire, SettleRetire DEF CachedAnswer
<1>3. CASE AttachAnswer
  <2>1. LegacyState # None => LegacyState \in Procs /\ pc[LegacyState] \notin Unborn
    BY DEF LegacyState, FilesInv, TypeOK
  <2>2. CASE ~Healthy(seen)
    BY <1>3, <2>1, <2>2 DEF AttachAnswer, local, history, RetireInv, Spawning, Keeps
  <2> QED
    BY <1>3, <2>2, SettleRetire DEF AttachAnswer
<1>4. CASE SpawnFails
  BY <1>4, SettleRetire DEF SpawnFails
<1>5. CASE Poll
  <2>1. CASE launch' = "probe" /\ seen' = State /\ UNCHANGED <<cachedPort, local, history>>
    BY <1>5, <2>1 DEF Poll, local, history, RetireInv, Spawning, Keeps
  <2> QED
    BY <1>5, <2>1, CheckExitRetire DEF Poll
<1>6. CASE ProbeAnswer
  BY <1>6, CheckExitRetire, SettleRetire DEF ProbeAnswer
<1>7. CASE Quit
  BY <1>7 DEF Quit, RetireInv, Spawning, Keeps
<1> QED
  BY <1>1, <1>2, <1>3, <1>4, <1>5, <1>6, <1>7

(* Without a lock file nobody owns the directory, unless it was unlinked    *)
(* under its owner.                                                         *)
LEMMA NoneOwns ==
  ASSUME TypeOK, LockInv, link = None, ~split
  PROVE  held = {}
<1> SUFFICES ASSUME NEW q \in held PROVE FALSE
  OBVIOUS
<1>1. q \in Procs /\ fd[q] = None /\ pc[q] \in Running \cup (Unwind \ {"released"})
  BY DEF LockInv, TypeOK
<1> QED
  BY <1>1 DEF LockInv, Running, Unwind, Over

(* The wait ends with the lock file gone: whoever holds a lock holds that   *)
(* of an unlinked file, and nobody who comes later can open it.             *)
LEMMA WaitAhead ==
  ASSUME TypeOK, LockInv, RetireInv, AheadInv, LockWait
  PROVE  RetireInv' /\ AheadInv'
<1>1. /\ launch = "lockWait" /\ UNCHANGED <<pc, lockVars>> /\ child' = child
      /\ child = None /\ ahead = {}
  BY DEF LockWait, RetireInv, daemonVars, Spawning
<1>2. CASE ~(link = None \/ tick = Waits)
  BY <1>1, <1>2 DEF LockWait, history, RetireInv, AheadInv, Spawning
<1>3. CASE link # None /\ tick = Waits
  BY <1>1, <1>3 DEF LockWait, WaitEnds, RetireInv, AheadInv, Spawning
<1>4. CASE link = None
  <2>1. /\ launch' = "spawn" /\ retired' = retired
        /\ ahead' = {p \in Procs : pc[p] \notin Unborn}
    BY <1>4 DEF LockWait, WaitEnds, CameToLock, Unborn
  <2>2. RetireInv'
    BY <1>1, <2>1 DEF RetireInv, Spawning
  <2>3. retired \in ahead' /\ ahead' \subseteq Procs /\ child' \notin ahead'
    BY <1>1, <2>1, DaemonAssumption DEF RetireInv
  <2>4. UNCHANGED <<fd, held, link, split, pc>>
    BY <1>1 DEF lockVars
  <2>5. \A q \in Procs \ ahead' : fd[q] = None
    BY <2>1 DEF LockInv, Unborn
  <2>6. ~split => held = {}
    BY <1>4, NoneOwns
  <2>7. AheadInv'
    BY <1>4, <2>1, <2>3, <2>4, <2>5, <2>6 DEF AheadInv
  <2> QED
    BY <2>2, <2>7
<1> QED
  BY <1>2, <1>3, <1>4

(* The child is a process that was not there before.                        *)
LEMMA SpawnAhead ==
  ASSUME TypeOK, LockInv, FilesInv, RetireInv, AheadInv, Spawn
  PROVE  RetireInv' /\ AheadInv'
<1>1. PICK p \in Procs \ Legacy : Start(p) /\ child' = p
  BY DEF Spawn
<1>2. launch = "spawn" /\ launch' = "poll" /\ UNCHANGED ahead /\ UNCHANGED retired
  BY DEF Spawn, history
<1>3. pc[p] = "none" /\ UNCHANGED <<fd, held, link, split, stateFile>>
  BY <1>1 DEF Start, Goes, lockVars
<1>4. Moves(p)
  BY <1>1, <1>3 DEF Moves, Start, Goes, TypeOK, Unborn
<1>5. p \notin ahead
  BY <1>3 DEF AheadInv, Unborn
<1>6. RetireInv'
  BY <1>2 DEF RetireInv, Spawning
<1> QED
  BY <1>1, <1>2, <1>4, <1>5, <1>6, AheadStep

LEMMA RetirePostAhead ==
  ASSUME TypeOK, LockInv, FilesInv, RetireInv, AheadInv, RetirePost
  PROVE  RetireInv' /\ AheadInv'
<1>1. /\ launch = "retire" /\ launch' = "lockWait" /\ retired' = seen /\ ahead' = ahead
      /\ child' = child /\ ahead = {}
  BY DEF RetirePost, RetireInv, Spawning
<1>2. seen \in Procs /\ pc'[seen] \notin Unborn
  BY <1>1 DEF RetireInv, RetirePost, RequestStop, Goes, TypeOK, daemonVars, Unborn
<1> QED
  BY <1>1, <1>2 DEF RetireInv, AheadInv, Spawning

(* Processes move, and the launcher waits.                                  *)
LEMMA DaemonsAhead ==
  ASSUME TypeOK, LockInv, FilesInv, RetireInv, AheadInv, Next, UNCHANGED launcher
  PROVE  RetireInv' /\ AheadInv'
<1>1. PICK p \in Procs : Moves(p)
  BY ProcessMoves
<1>2. UNCHANGED <<launch, seen, child, ahead, retired>>
  BY DEF launcher, local, history
<1>3. \A q \in Procs : pc[q] \notin Unborn => pc'[q] \notin Unborn
  BY <1>1 DEF Moves, Unborn
<1>4. RetireInv'
  BY <1>2, <1>3 DEF RetireInv
<1>5. CASE ahead = {}
  <2>1. ahead' = {}
    BY <1>2, <1>5
  <2>2. AheadInv'
    BY <2>1 DEF AheadInv
  <2> QED
    BY <1>4, <2>2
<1>6. CASE ahead # {}
  <2>1. child' \notin ahead
    BY <1>2, <1>6 DEF AheadInv
  <2> QED
    BY <1>1, <1>2, <1>4, <2>1, AheadStep
<1> QED
  BY <1>4, <1>5, <1>6

(* The sweep, and processes that move while rm is on its way.               *)
LEMMA MetStep ==
  ASSUME TypeOK, FilesInv, MetInv, NEW p \in Procs, Moves(p), UNCHANGED met
  PROVE  MetInv'
<1>1. \A q \in met : pc'[q] \notin Unborn /\ fd'[q] \in {fd[q], None}
  BY DEF MetInv, Moves, Unborn
<1>2. ASSUME NEW q \in met, fd[q] # None PROVE fd[q] # link'
  <2>1. q \in Procs /\ fd[q] # link /\ pc[fd[q]] \notin Unborn
    BY <1>2 DEF MetInv, FilesInv
  <2>2. link' \in {link, None} \/ (link' = p /\ pc[p] \in Unborn)
    BY DEF Moves, Unborn
  <2> QED
    BY <1>2, <2>1, <2>2
<1>3. ASSUME ~split' PROVE held' \cap met = {}
  <2>1. held \cap met = {} /\ (p \in met /\ fd[p] # None => fd[p] # link)
    BY <1>3 DEF MetInv, Moves
  <2> QED
    BY <1>3, <2>1 DEF Moves
<1>4. met \subseteq Procs
  BY DEF MetInv
<1> QED
  BY <1>1, <1>2, <1>3, <1>4 DEF MetInv

LEMMA MetNext ==
  ASSUME TypeOK, LockInv, SeenInv, FilesInv, MetInv, [PluginNext]_vars
  PROVE  MetInv'
<1>1. CASE SweepCheck
  <2>1. link = None /\ met' = {p \in Procs : pc[p] \notin Unborn} /\ UNCHANGED <<pc, lockVars>>
    BY <1>1 DEF SweepCheck, CameToLock, Unborn, daemonVars
  <2>2. UNCHANGED <<pc, fd, held, link, split>>
    BY <2>1 DEF lockVars
  <2>3. ~split => held = {}
    BY <2>1, NoneOwns
  <2> QED
    BY <2>1, <2>2, <2>3 DEF MetInv
<1>2. CASE SweepRemove
  BY <1>2 DEF SweepRemove, MetInv
<1>3. CASE UNCHANGED sweepVars
  <2>1. met' = met
    BY <1>3 DEF sweepVars
  <2>2. CASE Next
    BY <2>1, <2>2, MetStep, ProcessMoves
  <2>3. CASE UNCHANGED <<pc, lockVars>>
    BY <2>1, <2>3 DEF MetInv, lockVars
  <2> QED
    BY <2>2, <2>3, PluginStep DEF daemonVars
<1>4. SweepCheck \/ SweepRemove \/ UNCHANGED sweepVars
  BY DEF PluginNext, vars, Call, LauncherStep, CachedAnswer, AttachAnswer, RetirePost, LockWait,
     Spawn, SpawnFails, Poll, ProbeAnswer, Quit, Relaunch, LegacyStart, DaemonStep, IdleOut
<1> QED
  BY <1>1, <1>2, <1>3, <1>4

LEMMA RInvNext ==
  ASSUME PInv, RInv, [PluginNext]_vars
  PROVE  RInv'
<1>1. TypeOK /\ LockInv /\ SeenInv /\ FilesInv /\ RetireInv /\ AheadInv /\ MetInv
  BY DEF PInv, SInv, RInv
<1>2. FilesInv'
  <2>1. CASE Next
    BY <1>1, <2>1, ProcessMoves, FilesStep
  <2>2. CASE UNCHANGED <<pc, fd, link, stateFile>>
    BY <1>1, <2>2 DEF FilesInv
  <2> QED
    BY <1>1, <2>1, <2>2, PluginStep DEF daemonVars, lockVars
<1>3. RetireInv' /\ AheadInv'
  <2>1. CASE Call \/ CachedAnswer \/ AttachAnswer \/ SpawnFails \/ Poll \/ ProbeAnswer \/ Quit
    <3>1. UNCHANGED <<pc, lockVars>>
      BY <2>1 DEF Call, CachedAnswer, AttachAnswer, SpawnFails, Poll, ProbeAnswer, Quit, daemonVars
    <3> QED
      BY <1>1, <2>1, <3>1, LaunchRetire, AheadKept
  <2>2. CASE LockWait
    BY <1>1, <2>2, WaitAhead
  <2>3. CASE Spawn
    BY <1>1, <2>3, SpawnAhead
  <2>4. CASE RetirePost
    BY <1>1, <2>4, RetirePostAhead
  <2>5. CASE Relaunch \/ SweepCheck \/ SweepRemove \/ UNCHANGED vars
    <3>1. UNCHANGED <<pc, lockVars, launcher>>
      BY <2>5 DEF Relaunch, SweepCheck, SweepRemove, vars, daemonVars
    <3>2. UNCHANGED <<launch, seen, child, ahead, retired>>
      BY <3>1 DEF launcher, local, history
    <3>3. RetireInv'
      BY <1>1, <3>1, <3>2 DEF RetireInv
    <3> QED
      BY <1>1, <3>1, <3>2, <3>3, AheadKept DEF Keeps
  <2>6. CASE LegacyStart \/ DaemonStep \/ \E p \in Procs : IdleOut(p)
    <3>1. Next /\ UNCHANGED launcher
      BY <2>6 DEF LegacyStart, DaemonStep, IdleOut, Next, Proceed
    <3> QED
      BY <1>1, <3>1, DaemonsAhead
  <2> QED
    BY <2>1, <2>2, <2>3, <2>4, <2>5, <2>6 DEF PluginNext, LauncherStep
<1>4. MetInv'
  BY <1>1, MetNext
<1> QED
  BY <1>2, <1>3, <1>4 DEF RInv

LEMMA RInvInit == PluginInit => RInv
BY DEF PluginInit, Init, RInv, FilesInv, RetireInv, AheadInv, MetInv, Spawning

LEMMA AheadIsBehind == PluginTypeOK /\ RInv => RetiredLockIsFree
  BY DEF PluginTypeOK, RInv, AheadInv, RetiredLockIsFree

(* Once the lock file of a retired daemon is gone, neither it nor any other *)
(* process that had come to the lock file by then owns the directory or can *)
(* turn away a child of that launch, for any processes, crashes, numbers of *)
(* attempts, relaunches and interleavings.                                  *)
THEOREM RetirePays == PluginSpec => []RetiredLockIsFree
<1>1. PluginTypeOK /\ RInv => RetiredLockIsFree
  BY AheadIsBehind
<1> QED
  BY <1>1, RInvInit, RInvNext, PluginInductive, PluginTypeCorrect, PTL DEF PluginSpec

(* Whenever rm runs, at whatever distance from the look, no process that    *)
(* had come to the lock file by the look owns the directory: what the race  *)
(* of the sweep can hit is a process that came to it later.                 *)
THEOREM InterlockHolds == PluginSpec => []SweepInterlock
<1>1. RInv => SweepInterlock
  BY DEF RInv, MetInv, SweepInterlock
<1> QED
  BY <1>1, RInvInit, RInvNext, PluginInductive, PTL DEF PluginSpec
=============================================================================
