---------------------------- MODULE ServerProofs ----------------------------
(***************************************************************************)
(* For any number of daemons and of requests: the server with its drain is *)
(* a daemon as module Daemon has it, and no handler that wait() counted    *)
(* meets a closed engine or the cache of another daemon.                   *)
(***************************************************************************)
EXTENDS Server, DaemonProofs

USE ServerAssumption DEF cacheVars

LEMMA SrvInit == ServerInit => SrvInv
<1> SUFFICES ASSUME ServerInit PROVE SrvInv
  OBVIOUS
<1>1. ServerTypeOK
  <2>1. at \in [Reqs -> {"free", "read", "handling"}] /\ to \in [Reqs -> Procs \cup {None}]
    BY DEF ServerInit
  <2>2. kind \in [Reqs -> Kinds]
    BY DEF ServerInit, Kinds
  <2>3. idle \in [Procs -> 0..IdleTimeout]
    BY DEF ServerInit
  <2>4. drain \in [Procs -> {"no", "shutdown", "wait", "close"}]
    BY DEF ServerInit
  <2> QED
    BY <2>1, <2>2, <2>3, <2>4 DEF ServerInit, ServerTypeOK
<1>2. \A r \in Reqs : at[r] = "free"
  BY DEF ServerInit
<1> QED
  BY <1>1, <1>2 DEF SrvInv, HandlersSeeOpenEngine

-----------------------------------------------------------------------------
(* The steps of the files are Daemon's, the others leave its variables.     *)
LEMMA StepRefines == [ServerNext]_vars => [Next]_daemonVars
<1> SUFFICES ASSUME [ServerNext]_vars PROVE [Next]_daemonVars
  OBVIOUS
<1>1. CASE UNCHANGED vars \/ IINAQuits
  BY <1>1 DEF vars, IINAQuits
<1>2. ASSUME NEW r \in Reqs, Handles(r) PROVE UNCHANGED daemonVars
  BY <1>2 DEF Handles, Enter, Answer, AnswerShutdown, EndLong, CutOff, Leave, Read
<1>3. ASSUME NEW p \in Procs, Stops(p) PROVE RequestStop(p) \/ Drain(p) \/ UNCHANGED daemonVars
  BY <1>3 DEF Stops, Tick, FindIdle, MonitorTriggers, ShutdownTriggers, ServeFails, Triggered,
     Signal, Wake, StopServer, Wait, CloseEngine
<1>4. ASSUME NEW p \in Procs, Boot(p) \/ Unwinds(p) \/ Exit(p) \/ Killed(p)
      PROVE  Start(p) \/ Startup(p) \/ Shutdown(p) \/ Crash(p)
  BY <1>4 DEF Boot, Unwinds, Exit, Killed, Shutdown
<1> QED
  BY <1>1, <1>2, <1>3, <1>4 DEF ServerNext, Next, Shutdown

(* What is proved of Daemon holds of the server.                            *)
LEMMA ServerIsDaemon == ServerSpec => Spec
<1>1. ServerInit => Init
  BY DEF ServerInit
<1> QED
  BY <1>1, StepRefines, PTL DEF ServerSpec, Spec

-----------------------------------------------------------------------------
(* What the steps of a request keep.                                        *)
LEMMA HandlesKeep ==
  ASSUME SrvInv, NEW r \in Reqs, Handles(r)
  PROVE  SrvInv'
<1> USE DEF SrvInv, ServerTypeOK
<1>1. UNCHANGED <<pc, drain>> /\ \A p \in Procs : EngineOpen(p)' = EngineOpen(p)
  BY DEF Handles, Enter, Answer, AnswerShutdown, EndLong, CutOff, Leave, Read, daemonVars,
     EngineOpen
<1>2. CASE Enter(r)
  <2>1. to[r] \in Procs /\ UNCHANGED <<to, kind, due, asked, stopping, cancelled, gone>>
    BY <1>2 DEF Enter
  <2>2. at' \in [Reqs -> {"free", "read", "handling"}] /\ late' \subseteq Reqs
    BY <1>2 DEF Enter
  <2>3. idle' \in [Procs -> 0..IdleTimeout]
    BY <1>2 DEF Enter, Touch
  <2>4. \A s \in Reqs : at'[s] = "handling" => EngineOpen(to[s]) \/ s \in late'
    BY <1>2 DEF Enter, HandlersSeeOpenEngine
  <2>5. \A s \in Reqs : at'[s] # "free" => to[s] \in Procs
    BY <1>2 DEF Enter
  <2>6. HandlersSeeOpenEngine'
    BY <1>1, <2>1, <2>4, <2>5 DEF HandlersSeeOpenEngine
  <2> QED
    BY <1>1, <2>1, <2>2, <2>3, <2>5, <2>6
<1>3. CASE Leave(r) /\ idle' \in [Procs -> 0..IdleTimeout] /\ asked' \subseteq Procs
  <2>1. UNCHANGED <<due, stopping, cancelled, gone>>
    BY <1>3 DEF Leave
  <2>2. /\ at' \in [Reqs -> {"free", "read", "handling"}] /\ late' \subseteq Reqs
        /\ to' \in [Reqs -> Procs \cup {None}] /\ kind' \in [Reqs -> Kinds]
    BY <1>3 DEF Leave, Kinds
  <2>3. at'[r] = "free" /\ \A s \in Reqs \ {r} : at'[s] = at[s] /\ to'[s] = to[s] /\ (s \in late => s \in late')
    BY <1>3 DEF Leave
  <2>4. \A s \in Reqs : at'[s] # "free" => to'[s] \in Procs
    BY <2>3
  <2>5. HandlersSeeOpenEngine'
    BY <1>1, <2>3, <2>4 DEF HandlersSeeOpenEngine
  <2> QED
    BY <1>1, <1>3, <2>1, <2>2, <2>4, <2>5
<1>4. ASSUME Answer(r) \/ AnswerShutdown(r) \/ EndLong(r) \/ CutOff(r)
      PROVE  Leave(r) /\ idle' \in [Procs -> 0..IdleTimeout] /\ asked' \subseteq Procs
  <2>1. Leave(r) /\ to[r] \in Procs
    BY <1>4 DEF Answer, AnswerShutdown, EndLong, CutOff, Leave
  <2> QED
    BY <1>4, <2>1 DEF Answer, AnswerShutdown, EndLong, CutOff, Touch
<1>5. ASSUME NEW p \in Procs, NEW k \in Kinds, Read(r, p, k) PROVE SrvInv'
  <2>1. UNCHANGED <<late, idle, due, asked, stopping, cancelled, gone>>
    BY <1>5 DEF Read, timerVars
  <2>2. /\ at' \in [Reqs -> {"free", "read", "handling"}]
        /\ to' \in [Reqs -> Procs \cup {None}] /\ kind' \in [Reqs -> Kinds]
    BY <1>5 DEF Read
  <2>3. at'[r] = "read" /\ to'[r] = p /\ \A s \in Reqs \ {r} : at'[s] = at[s] /\ to'[s] = to[s]
    BY <1>5 DEF Read
  <2>4. \A s \in Reqs : at'[s] # "free" => to'[s] \in Procs
    BY <2>3
  <2>5. HandlersSeeOpenEngine'
    BY <1>1, <2>1, <2>3, <2>4 DEF HandlersSeeOpenEngine
  <2> QED
    BY <1>1, <2>1, <2>2, <2>4, <2>5
<1> QED
  BY <1>2, <1>3, <1>4, <1>5 DEF Handles

(* A step that leaves the requests alone keeps SrvInv as long as it closes  *)
(* no engine that a handler uses.                                           *)
LEMMA EngineKept ==
  ASSUME SrvInv, ServerTypeOK', UNCHANGED reqVars,
         \A p \in Procs : EngineOpen(p) /\ Active(p) # {} => EngineOpen(p)'
  PROVE  SrvInv'
<1>1. ASSUME NEW r \in Reqs, at[r] = "handling", r \notin late,
             NEW p \in Procs, p = to[r]
      PROVE  EngineOpen(p)'
  <2>1. EngineOpen(p) /\ r \in Active(p)
    BY <1>1 DEF SrvInv, HandlersSeeOpenEngine, Active
  <2> QED
    BY <2>1
<1>2. HandlersSeeOpenEngine'
  BY <1>1 DEF SrvInv, HandlersSeeOpenEngine, reqVars, EngineOpen
<1> QED
  BY <1>2 DEF SrvInv, reqVars

LEMMA StopsKeep ==
  ASSUME SrvInv, TypeOK, NEW p \in Procs, Stops(p)
  PROVE  SrvInv'
<1> USE DEF SrvInv, ServerTypeOK
<1>1. UNCHANGED reqVars /\ gone' = gone
  BY DEF Stops, Tick, FindIdle, MonitorTriggers, ShutdownTriggers, ServeFails, Triggered, Signal,
     Wake, StopServer, Wait, CloseEngine, serverVars
<1>2. drain' \in [Procs -> {"no", "shutdown", "wait", "close"}]
  BY DEF Stops, Tick, FindIdle, MonitorTriggers, ShutdownTriggers, ServeFails, Triggered, Signal,
     Wake, StopServer, Wait, CloseEngine, serverVars
<1>3. idle' \in [Procs -> 0..IdleTimeout]
  BY DEF Stops, Tick, FindIdle, MonitorTriggers, ShutdownTriggers, ServeFails, Triggered, Signal,
     Wake, StopServer, Wait, CloseEngine, serverVars, TimersEnd, timerVars
<1>4. due' \subseteq Procs /\ asked' \subseteq Procs /\ stopping' \subseteq Procs /\ cancelled' \subseteq Procs
  BY DEF Stops, Tick, FindIdle, MonitorTriggers, ShutdownTriggers, ServeFails, Triggered, Signal,
     Wake, StopServer, Wait, CloseEngine, serverVars, TimersEnd, timerVars
<1>5. ServerTypeOK'
  BY <1>1, <1>2, <1>3, <1>4 DEF reqVars
<1>6. ASSUME NEW q \in Procs, EngineOpen(q), Active(q) # {} PROVE EngineOpen(q)'
  <2>1. CASE Wait(p)
    BY <1>6, <2>1 DEF Wait, EngineOpen, daemonVars
  <2>2. CASE CloseEngine(p)
    BY <1>6, <2>2 DEF CloseEngine, Drain, Goes, EngineOpen, TypeOK, serverVars
  <2>3. CASE Signal(p) \/ Wake(p)
    BY <1>6, <2>3 DEF Signal, Wake, RequestStop, Goes, EngineOpen, TypeOK
  <2>4. CASE StopServer(p)
    BY <1>6, <2>4 DEF StopServer, EngineOpen, daemonVars
  <2>5. CASE Tick(p) \/ FindIdle(p) \/ MonitorTriggers(p) \/ ShutdownTriggers(p) \/ ServeFails(p)
    BY <1>6, <2>5 DEF Tick, FindIdle, MonitorTriggers, ShutdownTriggers, ServeFails, Triggered,
       EngineOpen, daemonVars
  <2> QED
    BY <2>1, <2>2, <2>3, <2>4, <2>5 DEF Stops
<1> QED
  BY <1>1, <1>5, <1>6, EngineKept

LEMMA ProcessKeeps ==
  ASSUME SrvInv, TypeOK, NEW p \in Procs, Boot(p) \/ Unwinds(p) \/ Exit(p) \/ Killed(p)
  PROVE  SrvInv'
<1>1. CASE Boot(p) \/ Unwinds(p)
  <2>1. UNCHANGED serverVars
    BY <1>1 DEF Boot, Unwinds
  <2>2. ServerTypeOK' /\ UNCHANGED reqVars
    BY <2>1 DEF SrvInv, ServerTypeOK, serverVars, reqVars, timerVars
  <2>3. ASSUME NEW q \in Procs, EngineOpen(q) PROVE EngineOpen(q)'
    <3>1. pc[q] \in {"serving", "draining"} /\ drain'[q] = drain[q]
      BY <2>1, <2>3 DEF EngineOpen, serverVars
    <3>2. pc'[q] = pc[q]
      BY <1>1, <3>1 DEF Boot, Start, Startup, OpenLock, Flock, Refuse, Prepare,
         PrepareOverStale, Publish, PublishFails,
         Unwinds, Unpublish, PurgeCache, PurgeCacheFails, Release, Goes, TypeOK
    <3> QED
      BY <2>3, <3>1, <3>2 DEF EngineOpen
  <2> QED
    BY <2>2, <2>3, EngineKept
<1>2. CASE Exit(p) \/ Killed(p)
  <2>1. Vanish(p) /\ \A q \in Procs \ {p} : pc'[q] = pc[q]
    BY <1>2 DEF Exit, Killed, Unlink, Crash, Goes, TypeOK
  <2>2. ServerTypeOK'
    BY <2>1 DEF Vanish, TimersEnd, SrvInv, ServerTypeOK, Kinds
  <2>3. \A r \in Reqs : at'[r] # "free" => /\ to[r] # p /\ to'[r] = to[r] /\ at[r] = at'[r]
                                          /\ (r \in late => r \in late')
    BY <2>1 DEF Vanish
  <2>4. \A q \in Procs \ {p} : EngineOpen(q)' = EngineOpen(q)
    BY <2>1 DEF Vanish, EngineOpen, SrvInv, ServerTypeOK
  <2>5. HandlersSeeOpenEngine'
    <3>1. ASSUME NEW r \in Reqs, at'[r] = "handling" PROVE EngineOpen(to[r])' \/ r \in late'
      <4>1. to[r] \in Procs \ {p} /\ to'[r] = to[r] /\ at[r] = "handling" /\ (r \in late => r \in late')
        BY <2>3, <3>1 DEF SrvInv
      <4> QED
        BY <2>4, <4>1 DEF SrvInv, HandlersSeeOpenEngine, EngineOpen
    <3> QED
      BY <3>1 DEF HandlersSeeOpenEngine
  <2> QED
    BY <2>2, <2>3, <2>5 DEF SrvInv
<1> QED
  BY <1>1, <1>2

LEMMA SrvNext == SrvInv /\ TypeOK /\ [ServerNext]_vars => SrvInv'
<1> SUFFICES ASSUME SrvInv, TypeOK, [ServerNext]_vars PROVE SrvInv'
  OBVIOUS
<1>1. CASE UNCHANGED vars
  BY <1>1 DEF vars, serverVars, reqVars, timerVars, daemonVars, SrvInv, ServerTypeOK,
     HandlersSeeOpenEngine, EngineOpen
<1>2. CASE IINAQuits
  BY <1>2 DEF IINAQuits, reqVars, timerVars, daemonVars, SrvInv, ServerTypeOK,
     HandlersSeeOpenEngine, EngineOpen
<1> QED
  BY <1>1, <1>2, HandlesKeep, StopsKeep, ProcessKeeps DEF ServerNext

-----------------------------------------------------------------------------
LEMMA ServerDInv == ServerSpec => []DInv
  BY ServerIsDaemon, DaemonInductive, PTL

LEMMA ServerInductive == ServerSpec => []SrvInv
<1>1. DInv => TypeOK
  BY DEF DInv, SInv
<1> QED
  BY <1>1, ServerDInv, SrvInit, SrvNext, PTL DEF ServerSpec

(* A handler that wait() counted never meets a closed engine.               *)
THEOREM HandlersHaveEngine == ServerSpec => []HandlersSeeOpenEngine
<1>1. SrvInv => HandlersSeeOpenEngine
  BY DEF SrvInv
<1> QED
  BY <1>1, ServerInductive, PTL

(* ... nor another owner of the directory, nor another daemon's cache.      *)
THEOREM HandlersHaveCache == ServerSpec => []ServedFromOwnCache
<1>1. SrvInv /\ DInv => ServedFromOwnCache
  <2> SUFFICES ASSUME SrvInv, DInv, ~split, NEW r \in Reqs, at[r] = "handling", r \notin late
               PROVE  /\ to[r] \in cache /\ (cache = {to[r]} \/ kept)
                      /\ \A q \in held : q = to[r]
    BY DEF ServedFromOwnCache
  <2>1. to[r] \in Procs /\ pc[to[r]] \in {"serving", "draining"}
    BY DEF SrvInv, HandlersSeeOpenEngine, EngineOpen
  <2>2. to[r] \in cache /\ (cache = {to[r]} \/ kept)
    BY <2>1 DEF DInv, CacheIsOwn
  <2>3. to[r] \in held /\ OneOwner
    BY <2>1, Exclusion DEF DInv, SInv, LockInv, Running
  <2> QED
    BY <2>2, <2>3 DEF OneOwner
<1> QED
  BY <1>1, ServerInductive, ServerDInv, PTL
=============================================================================
