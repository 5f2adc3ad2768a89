------------------------------- MODULE Plugin -------------------------------
(***************************************************************************)
(* The plugin's side of the daemon, composed with module Daemon: the       *)
(* launcher ensureRunning (src/daemon.ts), and the cache sweep and the     *)
(* keep-alive of the global entry (src/global.ts).                         *)
(*                                                                         *)
(* The plugin runs on one thread; every await ends an action, and what is  *)
(* read before it may be stale after it.  SingleFlight makes concurrent    *)
(* callers of ensureRunning share one launch.  A port is named after the   *)
(* process that listens on it.                                             *)
(***************************************************************************)
EXTENDS Daemon, Integers

CONSTANTS
  Legacy,      \* the processes of an older version, whose state has no token
  Attempts,    \* SPAWN_ATTEMPTS
  Polls,       \* polls of one spawn attempt
  Grace,       \* ALREADY_RUNNING_GRACE_TICKS
  Waits        \* polls of the lock file after a legacy daemon is told to stop

ASSUME PluginAssumption ==
  /\ Legacy \subseteq Procs
  /\ {Attempts, Polls, Grace, Waits} \subseteq Nat \ {0}

VARIABLES
  iina,       \* IINA runs the plugin
  launch,     \* where ensureRunningOnce is; "idle" when none is in flight
  cachedPort, \* cachedPort
  seen,       \* the state whose daemon a health check asks, or the legacy one
  attempt,    \* of spawnDaemon
  tick,       \* of the polling loop under way
  exitedAt,   \* exitedZeroAt
  child,      \* the process of this attempt
  retired,    \* history: the legacy daemon this launch told to stop and waits for
  ahead,      \* history: the processes that had come to the lock file when this
              \*   launch saw that of the retired daemon gone
  sweep,      \* sweepOrphanedCache: "idle", or "removing" when rm is on its way
  met         \* history: the processes that had come to the lock file when it looked

local    == <<attempt, tick, exitedAt, child>>
history  == <<retired, ahead>>
launcher == <<launch, cachedPort, seen, local, history>>
sweepVars == <<sweep, met>>
vars     == <<daemonVars, iina, launcher, sweepVars>>

Launch == {"idle", "cached", "attach", "retire", "lockWait", "spawn", "poll", "probe"}

PluginTypeOK ==
  /\ TypeOK
  /\ iina \in BOOLEAN
  /\ launch \in Launch
  /\ {cachedPort, seen, child, retired} \subseteq Procs \cup {None}
  /\ attempt \in 1..Attempts
  /\ tick \in 0..(Polls + Waits)
  /\ exitedAt \in -1..Polls
  /\ ahead \subseteq Procs
  /\ sweep \in {"idle", "removing"} /\ met \subseteq Procs

PluginInit ==
  /\ Init
  /\ iina = TRUE
  /\ launch = "idle" /\ cachedPort = None /\ seen = None
  /\ attempt = 1 /\ tick = 0 /\ exitedAt = -1 /\ child = None
  /\ retired = None /\ ahead = {}
  /\ sweep = "idle" /\ met = {}

(* readState and readLegacyPort: a state file without a token is a legacy one. *)
State       == IF stateFile \in Legacy THEN None ELSE stateFile
LegacyState == IF stateFile \in Legacy THEN stateFile ELSE None

(* Those that have, or had, a lock file open.                               *)
CameToLock == {p \in Procs : pc[p] \notin {"none", "starting"}}

Healthy(p) == p # None /\ pc[p] = "serving"

-----------------------------------------------------------------------------
(* The end of a launch, with a port or with an error.                       *)
Settle(port) ==
  /\ launch' = "idle"
  /\ cachedPort' = port
  /\ seen' = None /\ attempt' = 1 /\ tick' = 0 /\ exitedAt' = -1 /\ child' = None
  /\ retired' = None /\ ahead' = {}

(* A health check of the daemon the state file describes, or the launch.    *)
Look ==
  /\ UNCHANGED <<cachedPort, local, history>>
  /\ \/ State # None /\ launch' = "attach" /\ seen' = State
     \/ State = None /\ LegacyState # None /\ launch' = "retire" /\ seen' = LegacyState
     \/ State = None /\ LegacyState = None /\ launch' = "spawn" /\ seen' = None

(* ensureRunning, called by the global entry and for every torrent.  The    *)
(* cached port is only asked with the token of a state file that names it.  *)
Call ==
  /\ iina /\ launch = "idle"
  /\ IF cachedPort # None /\ State = cachedPort
     THEN launch' = "cached" /\ UNCHANGED <<cachedPort, seen, local, history>>
     ELSE Look
  /\ UNCHANGED <<daemonVars, iina, sweepVars>>

CachedAnswer ==
  /\ launch = "cached"
  /\ IF Healthy(cachedPort) THEN Settle(cachedPort) ELSE Look
  /\ UNCHANGED <<daemonVars, iina, sweepVars>>

AttachTrusting ==              \* mutant: a daemon is taken to be there
  /\ launch = "attach"
  /\ Settle(seen)
  /\ UNCHANGED <<daemonVars, iina, sweepVars>>

AttachAnswer ==
  /\ launch = "attach"
  /\ IF Healthy(seen) THEN Settle(seen)
     ELSE /\ launch' = IF LegacyState # None THEN "retire" ELSE "spawn"
          /\ seen' = LegacyState
          /\ UNCHANGED <<cachedPort, local, history>>
  /\ UNCHANGED <<daemonVars, iina, sweepVars>>

-----------------------------------------------------------------------------
(* retireLegacyDaemon: POST /shutdown, and then wait for the lock file.     *)
RetirePost ==
  /\ launch = "retire"
  /\ \/ pc[seen] = "serving" /\ RequestStop(seen)
     \/ pc[seen] # "serving" /\ UNCHANGED daemonVars
  /\ launch' = "lockWait" /\ tick' = 0 /\ seen' = None /\ retired' = seen
  /\ UNCHANGED <<cachedPort, attempt, exitedAt, child, ahead, iina, sweepVars>>

WaitEnds(free) ==
  /\ launch' = "spawn" /\ tick' = 0
  /\ ahead' = IF free THEN CameToLock ELSE {}
  /\ retired' = IF free THEN retired ELSE None

LockWaitOnState ==             \* mutant: waits for the state file to go
  /\ launch = "lockWait"
  /\ IF stateFile = None \/ tick = Waits
     THEN WaitEnds(stateFile = None)
     ELSE tick' = tick + 1 /\ UNCHANGED <<launch, history>>
  /\ UNCHANGED <<daemonVars, cachedPort, seen, attempt, exitedAt, child, iina, sweepVars>>

LockWaitUnbounded ==           \* mutant: a lock file a crash left is waited for
  /\ launch = "lockWait"
  /\ link = None
  /\ WaitEnds(TRUE)
  /\ UNCHANGED <<daemonVars, cachedPort, seen, attempt, exitedAt, child, iina, sweepVars>>

LockWait ==
  /\ launch = "lockWait"
  /\ IF link = None \/ tick = Waits
     THEN WaitEnds(link = None)
     ELSE tick' = tick + 1 /\ UNCHANGED <<launch, history>>
  /\ UNCHANGED <<daemonVars, cachedPort, seen, attempt, exitedAt, child, iina, sweepVars>>

-----------------------------------------------------------------------------
(* spawnDaemonOnce.                                                         *)
Spawn ==
  /\ launch = "spawn"
  /\ \E p \in Procs \ Legacy : Start(p) /\ child' = p
  /\ launch' = "poll" /\ tick' = 0 /\ exitedAt' = -1
  /\ UNCHANGED <<cachedPort, seen, attempt, history, iina, sweepVars>>

(* ensureBinary throws.                                                     *)
SpawnFails ==
  /\ launch = "spawn"
  /\ Settle(cachedPort)
  /\ UNCHANGED <<daemonVars, iina, sweepVars>>

(* The rest of a turn of the polling loop, when no daemon is healthy.       *)
ExitedZero == pc[child] \in {"refused", "exited"}

NextTick(at) ==
  IF tick + 1 = Polls
  THEN Settle(cachedPort)                                   \* did not start in time
  ELSE /\ launch' = "poll" /\ tick' = tick + 1 /\ exitedAt' = at /\ seen' = None
       /\ UNCHANGED <<cachedPort, attempt, child, history>>

NextAttempt ==
  IF attempt = Attempts
  THEN Settle(cachedPort)
  ELSE /\ launch' = "spawn" /\ attempt' = attempt + 1
       /\ seen' = None /\ tick' = 0 /\ exitedAt' = -1 /\ child' = None
       /\ UNCHANGED <<cachedPort, history>>

CheckExit ==
  \/ pc[child] \notin Over /\ NextTick(exitedAt)
  \/ pc[child] = "dead" /\ Settle(cachedPort)
  \/ ExitedZero /\ exitedAt < 0 /\ NextTick(tick)
  \/ ExitedZero /\ exitedAt >= 0 /\ tick - exitedAt < Grace /\ NextTick(exitedAt)
  \/ ExitedZero /\ exitedAt >= 0 /\ tick - exitedAt >= Grace /\ NextAttempt

Poll ==
  /\ launch = "poll"
  /\ \/ State # None /\ launch' = "probe" /\ seen' = State /\ UNCHANGED <<cachedPort, local, history>>
     \/ State = None /\ CheckExit
  /\ UNCHANGED <<daemonVars, iina, sweepVars>>

ProbeAnswer ==
  /\ launch = "probe"
  /\ IF Healthy(seen) THEN Settle(seen) ELSE CheckExit
  /\ UNCHANGED <<daemonVars, iina, sweepVars>>

-----------------------------------------------------------------------------
(* sweepOrphanedCache: the files are looked at, then rm runs.               *)
SweepCheckState ==             \* mutant: the lock file is not looked for
  /\ iina /\ sweep = "idle"
  /\ stateFile = None
  /\ sweep' = "removing" /\ met' = CameToLock
  /\ UNCHANGED <<daemonVars, iina, launcher>>

SweepCheck ==
  /\ iina /\ sweep = "idle"
  /\ stateFile = None /\ link = None
  /\ sweep' = "removing" /\ met' = CameToLock
  /\ UNCHANGED <<daemonVars, iina, launcher>>

SweepRemove ==
  /\ sweep = "removing"
  /\ sweep' = "idle" /\ met' = {}
  /\ cache' = {} /\ kept' = FALSE
  /\ UNCHANGED <<pc, lockVars, stateFile, iina, launcher>>

(* The idle timeout: no window polls the daemon, and keepDaemonAlive, which *)
(* follows the state file, does not reach it.  A heartbeat needs a token: a *)
(* daemon of an older version gets none.                                    *)
KeptByFile(p) == State = p     \* mutant: heartbeats outlive IINA
KeptAlive(p) == iina /\ State = p

IdleOut(p) ==
  /\ ~KeptAlive(p)
  /\ RequestStop(p)
  /\ UNCHANGED <<iina, launcher, sweepVars>>

(* IINA quits, and is started again.  The daemon is not its child to kill.  *)
Quit ==
  /\ iina
  /\ iina' = FALSE
  /\ launch' = "idle" /\ cachedPort' = None /\ seen' = None
  /\ attempt' = 1 /\ tick' = 0 /\ exitedAt' = -1 /\ child' = None
  /\ retired' = None /\ ahead' = {}
  /\ UNCHANGED <<daemonVars, sweepVars>>

Relaunch ==
  /\ ~iina /\ iina' = TRUE
  /\ UNCHANGED <<daemonVars, launcher, sweepVars>>

(* A daemon of an older version was left by the plugin before an upgrade.   *)
LegacyStart ==
  /\ ~iina
  /\ \E p \in Legacy : Start(p)
  /\ UNCHANGED <<iina, launcher, sweepVars>>

DaemonStep ==
  /\ \E p \in Procs : Proceed(p) \/ RequestStop(p) \/ Crash(p)
  /\ UNCHANGED <<iina, launcher, sweepVars>>

LauncherStep ==
  \/ CachedAnswer \/ AttachAnswer \/ RetirePost \/ LockWait
  \/ Spawn \/ SpawnFails \/ Poll \/ ProbeAnswer

PluginNext ==
  \/ Call \/ LauncherStep \/ SweepCheck \/ SweepRemove
  \/ Quit \/ Relaunch \/ LegacyStart
  \/ DaemonStep \/ \E p \in Procs : IdleOut(p)

PluginSpec == PluginInit /\ [][PluginNext]_vars

(* Processes and requests make progress, idle timers fire, the sweep runs   *)
(* every minute; nobody has to quit, signal or crash.                       *)
PluginFairness ==
  /\ WF_vars(LauncherStep)
  /\ WF_vars(SweepCheck) /\ WF_vars(SweepRemove)
  /\ \A p \in Procs :
       /\ WF_vars(Proceed(p) /\ UNCHANGED <<iina, launcher, sweepVars>>)
       /\ WF_vars(IdleOut(p))

FairPluginSpec == PluginSpec /\ PluginFairness

-----------------------------------------------------------------------------
(* A launch is only answered with the port of a daemon that serves then,    *)
(* never of one whose state file a crash left or that has stopped since its *)
(* port was cached or its file was read: and that daemon owns the directory. *)
Answered ==
  /\ launch # "idle" /\ launch' = "idle" /\ iina'
  /\ launch \in {"cached", "attach"} \/ cachedPort' # cachedPort

LaunchFindsOwner ==
  [][Answered
       => /\ pc[cachedPort'] = "serving"
          /\ ~split => stateFile = cachedPort' /\ held = {cachedPort'}]_vars

(* Waiting for the lock file pays: once it is gone, neither the daemon that *)
(* was told to stop nor any other that had come to the lock file by then    *)
(* owns the directory, unless one locked an unlinked file, and none of them *)
(* can turn away the child of any attempt of this launch: the lock file it  *)
(* opens is one that only later processes have open.                        *)
RetiredLockIsFree ==
  ahead # {} =>
    /\ retired \in ahead
    /\ ~split => held \cap ahead = {}
    /\ child # None /\ fd[child] # None => \A p \in ahead : fd[p] # fd[child]

(* The interlock of the sweep holds against every daemon that had come to   *)
(* the lock file when the sweep looked, mid-startup or on its way out: none *)
(* of them owns the directory when rm runs, however late that is, unless    *)
(* one locked an unlinked file.                                             *)
SweepInterlock == sweep = "removing" /\ ~split => held \cap met = {}

(* ensureRunning always answers, whatever files it finds: SingleFlight      *)
(* would otherwise hand the same pending promise to every later caller.     *)
LaunchSettles == launch # "idle" ~> launch = "idle"

(* Data that a daemon could not purge when it stopped is removed while the  *)
(* plugin runs, by the sweep or by the daemon started next, unless that one *)
(* cannot purge it either, a crash left its files, which stop the sweep, or *)
(* two daemons own the directory.                                           *)
FailedPurgeSwept ==
  iina /\ (\E p \in cache : pc[p] = "exited")
    ~> \/ ~iina
       \/ \A p \in cache : pc[p] # "exited"
       \/ kept \/ split \/ \E p \in Procs : pc[p] = "dead"

(* When IINA quits, at whatever point of a launch, every daemon stops, even *)
(* one that was only starting, and unlinks the files it is found by, unless *)
(* one is killed.                                                           *)
Stopped ==
  /\ \A p \in Procs : pc[p] \in {"none"} \cup Over
  /\ (\A p \in Procs : pc[p] # "dead") => link = None /\ stateFile = None

StopsAfterQuit == ~iina ~> iina \/ Stopped

-----------------------------------------------------------------------------
(* global.ts:244: the sweep does not touch the cache of a live daemon.      *)
SweepSparesLive ==
  [][sweep = "removing" /\ sweep' = "idle" => \A p \in held : p \notin cache]_vars
=============================================================================
