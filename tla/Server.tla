------------------------------- MODULE Server -------------------------------
(***************************************************************************)
(* The HTTP server of a daemon, its idle timer and its drain               *)
(* (torrentd/server.go, lifecycle.go and the end of main), on top of the   *)
(* processes and files of module Daemon, whose RequestStop and Drain it    *)
(* details: what ends the wait of main(), which requests are under way     *)
(* then, and what the engine's close waits for.                            *)
(*                                                                         *)
(* A request is first read by the HTTP library and then handed to          *)
(* ServeHTTP, which counts it.  The library closes the connections it      *)
(* believes idle and returns, or gives up after shutdownTimeout: either    *)
(* way it may hand over, later, a request that it had already read.        *)
(***************************************************************************)
EXTENDS Daemon, Naturals

CONSTANTS
  Reqs,         \* the requests under way at a time
  IdleTimeout   \* the idle timeout, in monitor intervals

ASSUME ServerAssumption == IdleTimeout \in Nat \ {0}

VARIABLES
  at,         \* where a request is: with the library or in its handler
  to,         \* the daemon it was sent to
  kind,       \* which handler it is for
  late,       \* history: the requests whose handler began after wait() returned
  idle,       \* intervals since lc.lastActivity, at most IdleTimeout
  due,        \* the daemons whose monitor found them idle, before its trigger
  asked,      \* the daemons with a pending trigger of POST /shutdown
  stopping,   \* lc.closed: the shutdown channel is closed
  drain,      \* how far main() is in stopping the server and the engine
  cancelled,  \* the daemons whose serverCtx is cancelled
  gone        \* IINA has quit: no request of the plugin any more

reqVars    == <<at, to, kind, late>>
timerVars  == <<idle, due, asked, stopping>>
serverVars == <<reqVars, timerVars, drain, cancelled, gone>>
vars       == <<daemonVars, serverVars>>

(* "poll" stands for the handlers that touch and return, "long" for those   *)
(* that also touch at their end and may wait for peers or for the player    *)
(* (stream, play, prewarm), "stop" for POST /shutdown, "mute" for a request *)
(* without the token and for /debug: neither of them touches.               *)
Kinds == {"poll", "long", "stop", "mute"}
Touching == {"poll", "long"}

Active(p) == {r \in Reqs : at[r] = "handling" /\ to[r] = p}

EngineOpen(p) == pc[p] \in {"serving", "draining"} /\ drain[p] # "close"

ServerTypeOK ==
  /\ at \in [Reqs -> {"free", "read", "handling"}]
  /\ to \in [Reqs -> Procs \cup {None}]
  /\ kind \in [Reqs -> Kinds]
  /\ late \subseteq Reqs
  /\ idle \in [Procs -> 0..IdleTimeout]
  /\ due \subseteq Procs /\ asked \subseteq Procs /\ stopping \subseteq Procs /\ cancelled \subseteq Procs
  /\ drain \in [Procs -> {"no", "shutdown", "wait", "close"}]
  /\ gone \in BOOLEAN

ServerInit ==
  /\ Init
  /\ at = [r \in Reqs |-> "free"] /\ to = [r \in Reqs |-> None]
  /\ kind = [r \in Reqs |-> "mute"] /\ late = {}
  /\ idle = [p \in Procs |-> 0] /\ due = {} /\ asked = {} /\ stopping = {}
  /\ drain = [p \in Procs |-> "no"] /\ cancelled = {} /\ gone = FALSE

-----------------------------------------------------------------------------
(* Requests.                                                                *)
Touch(p, k) == idle' = IF k \in Touching THEN [idle EXCEPT ![p] = 0] ELSE idle

(* The library accepts a connection and reads a request, as long as Serve   *)
(* runs.                                                                    *)
Read(r, p, k) ==
  /\ at[r] = "free" /\ pc[p] = "serving"
  /\ gone => k = "mute"
  /\ at' = [at EXCEPT ![r] = "read"]
  /\ to' = [to EXCEPT ![r] = p]
  /\ kind' = [kind EXCEPT ![r] = k]
  /\ UNCHANGED <<daemonVars, late, timerVars, drain, cancelled, gone>>

(* ServeHTTP counts the request, checks the token and calls the handler,    *)
(* which touches first; the engine is what it is by then.                   *)
Enter(r) ==
  /\ at[r] = "read"
  /\ at' = [at EXCEPT ![r] = "handling"]
  /\ late' = IF EngineOpen(to[r]) THEN late ELSE late \cup {r}
  /\ Touch(to[r], kind[r])
  /\ UNCHANGED <<daemonVars, to, kind, due, asked, stopping, drain, cancelled, gone>>

(* The handler returns, the deferred touch and active.Done() included.      *)
Leave(r) ==
  /\ at[r] = "handling"
  /\ at' = [at EXCEPT ![r] = "free"]
  /\ to' = [to EXCEPT ![r] = None]
  /\ kind' = [kind EXCEPT ![r] = "mute"]
  /\ late' = late \ {r}
  /\ UNCHANGED <<daemonVars, due, stopping, drain, cancelled, gone>>

Answer(r) ==
  /\ kind[r] \in {"poll", "mute"}
  /\ Leave(r)
  /\ UNCHANGED <<idle, asked>>

(* POST /shutdown answers and leaves the trigger to a goroutine.            *)
AnswerShutdown(r) ==
  /\ kind[r] = "stop"
  /\ Leave(r)
  /\ asked' = IF pc[to[r]] = "serving" THEN asked \cup {to[r]} ELSE asked
  /\ UNCHANGED idle

(* A long request ends with the file, the metadata, the player's close of   *)
(* the connection: whenever it does, if it does.                            *)
EndLong(r) ==
  /\ kind[r] = "long"
  /\ Leave(r)
  /\ Touch(to[r], kind[r])
  /\ UNCHANGED asked

CutOffNever(r) ==                \* mutant: a blocked Write does not see the context
  /\ to[r] \in cancelled /\ kind[r] # "long"
  /\ EndLong(r)

(* The cancelled context of a request ends every wait of a handler: the     *)
(* reads through contextReader, the waits of Play and Prewarm, and, by the  *)
(* write deadline, a Write that the player does not read.                   *)
CutOff(r) ==
  /\ to[r] \in cancelled
  /\ EndLong(r)

IINAQuits ==
  /\ ~gone
  /\ gone' = TRUE
  /\ UNCHANGED <<daemonVars, reqVars, timerVars, drain, cancelled>>

-----------------------------------------------------------------------------
(* The idle timer.  monitor() reads the time under the lock and acts on it  *)
(* after: a touch in between comes too late.                                *)
Tick(p) ==
  /\ pc[p] = "serving" /\ idle[p] < IdleTimeout
  /\ idle' = [idle EXCEPT ![p] = @ + 1]
  /\ UNCHANGED <<daemonVars, reqVars, due, asked, stopping, drain, cancelled, gone>>

FindIdleUnused(p) ==             \* mutant: a daemon with requests is not idle
  /\ pc[p] = "serving" /\ p \notin due \cup stopping
  /\ idle[p] = IdleTimeout /\ Active(p) = {}
  /\ due' = due \cup {p}
  /\ UNCHANGED <<daemonVars, reqVars, idle, asked, stopping, drain, cancelled, gone>>

FindIdle(p) ==
  /\ pc[p] = "serving" /\ p \notin due \cup stopping
  /\ idle[p] = IdleTimeout
  /\ due' = due \cup {p}
  /\ UNCHANGED <<daemonVars, reqVars, idle, asked, stopping, drain, cancelled, gone>>

Triggered(p) ==
  /\ pc[p] = "serving"
  /\ stopping' = stopping \cup {p}
  /\ UNCHANGED <<daemonVars, reqVars, idle, drain, cancelled, gone>>

MonitorTriggers(p) ==
  /\ p \in due
  /\ Triggered(p)
  /\ due' = due \ {p} /\ UNCHANGED asked

ShutdownTriggers(p) ==
  /\ p \in asked
  /\ Triggered(p)
  /\ asked' = asked \ {p} /\ UNCHANGED due

ServeFails(p) ==
  /\ p \notin stopping
  /\ Triggered(p)
  /\ UNCHANGED <<due, asked>>

-----------------------------------------------------------------------------
(* The drain.  Once main() has left its wait nothing the timers do counts.   *)
TimersEnd(p) == idle' = [idle EXCEPT ![p] = 0] /\ due' = due \ {p} /\ asked' = asked \ {p}

Signal(p) ==
  /\ RequestStop(p)
  /\ drain' = [drain EXCEPT ![p] = "shutdown"]
  /\ TimersEnd(p)
  /\ UNCHANGED <<reqVars, stopping, cancelled, gone>>

Wake(p) == p \in stopping /\ Signal(p)

(* Shutdown returns: no connection is active, or its time is up.  Whatever  *)
(* is under way then is cancelled.                                          *)
StopServer(p) ==
  /\ drain[p] = "shutdown"
  /\ pc[p] = "draining"
  /\ cancelled' = cancelled \cup {p}
  /\ drain' = [drain EXCEPT ![p] = "wait"]
  /\ UNCHANGED <<daemonVars, reqVars, timerVars, gone>>

WaitNot(p) ==                    \* mutant: the handlers are not waited for
  /\ drain[p] = "wait"
  /\ pc[p] = "draining"
  /\ drain' = [drain EXCEPT ![p] = "close"]
  /\ UNCHANGED <<daemonVars, reqVars, timerVars, cancelled, gone>>

Wait(p) ==
  /\ drain[p] = "wait"
  /\ pc[p] = "draining"
  /\ Active(p) = {}
  /\ drain' = [drain EXCEPT ![p] = "close"]
  /\ UNCHANGED <<daemonVars, reqVars, timerVars, cancelled, gone>>

CloseEngine(p) ==
  /\ drain[p] = "close"
  /\ Drain(p)
  /\ UNCHANGED serverVars

-----------------------------------------------------------------------------
(* The rest of a process' life.  With the process go its goroutines and     *)
(* what its timers hold.                                                    *)
Vanish(p) ==
  /\ at' = [r \in Reqs |-> IF to[r] = p THEN "free" ELSE at[r]]
  /\ to' = [r \in Reqs |-> IF to[r] = p THEN None ELSE to[r]]
  /\ kind' = [r \in Reqs |-> IF to[r] = p THEN "mute" ELSE kind[r]]
  /\ late' = {r \in late : to[r] # p}
  /\ TimersEnd(p) /\ stopping' = stopping \ {p}
  /\ drain' = [drain EXCEPT ![p] = "no"]
  /\ cancelled' = cancelled \ {p}
  /\ UNCHANGED gone

Boot(p)   == (Start(p) \/ Startup(p)) /\ UNCHANGED serverVars
Unwinds(p) == (Unpublish(p) \/ PurgeCache(p) \/ PurgeCacheFails(p) \/ Release(p)) /\ UNCHANGED serverVars
Exit(p)   == Unlink(p) /\ Vanish(p)
Killed(p) == Crash(p) /\ Vanish(p)

Handles(r) ==
  \/ Enter(r) \/ Answer(r) \/ AnswerShutdown(r) \/ EndLong(r) \/ CutOff(r)
  \/ \E p \in Procs, k \in Kinds : Read(r, p, k)

Stops(p) ==
  \/ Tick(p) \/ FindIdle(p) \/ MonitorTriggers(p) \/ ShutdownTriggers(p) \/ ServeFails(p)
  \/ Signal(p) \/ Wake(p) \/ StopServer(p) \/ Wait(p) \/ CloseEngine(p)

ServerNext ==
  \/ IINAQuits
  \/ \E r \in Reqs : Handles(r)
  \/ \E p \in Procs : Stops(p) \/ Boot(p) \/ Unwinds(p) \/ Exit(p) \/ Killed(p)

(* The goroutines of a process run and time passes.  Nobody owes a client's *)
(* request, a signal or the end of a long request.  The steps of one        *)
(* disjunction are never enabled together.                                  *)
Serves(r)  == Enter(r) \/ Answer(r) \/ AnswerShutdown(r) \/ CutOff(r)
Watches(p) == Tick(p) \/ FindIdle(p)
Winds(p)   == Wake(p) \/ StopServer(p) \/ Wait(p) \/ CloseEngine(p) \/ Unwinds(p) \/ Exit(p)

Fairness ==
  /\ \A r \in Reqs : WF_vars(Serves(r))
  /\ \A p \in Procs : WF_vars(Watches(p)) /\ WF_vars(MonitorTriggers(p)) /\ WF_vars(ShutdownTriggers(p))
  /\ \A p \in Procs : WF_vars(Winds(p))

ServerSpec     == ServerInit /\ [][ServerNext]_vars
FairServerSpec == ServerSpec /\ Fairness

-----------------------------------------------------------------------------
(* No handler runs while the engine is closed or closing, whenever a        *)
(* request, the idle timer, POST /shutdown or a signal comes, except one    *)
(* whose request the library handed over after wait() had returned.         *)
HandlersSeeOpenEngine ==
  \A r \in Reqs : at[r] = "handling" => EngineOpen(to[r]) \/ r \in late

(* ... and it works on the cache of its own daemon, which is the only one   *)
(* that owns the directory: another one that starts meanwhile is refused    *)
(* until the last handler has returned.                                     *)
ServedFromOwnCache ==
  ~split => \A r \in Reqs : at[r] = "handling" /\ r \notin late =>
               /\ to[r] \in cache /\ (cache = {to[r]} \/ kept)
               /\ \A q \in held : q = to[r]

(* A daemon that was asked to stop, in whatever way and with whatever       *)
(* requests under way, comes to its end and runs its deferred calls: no     *)
(* handler keeps wait() from returning.                                     *)
StopCompletes ==
  \A p \in Procs : p \in asked \cup stopping \/ pc[p] = "draining" ~> pc[p] \in {"exited", "dead"}

(* Once IINA has quit, a daemon stops by itself, although a player that     *)
(* went away may have left a stream that never ends, and whoever knocks     *)
(* without the token.                                                       *)
IdleStops == \A p \in Procs : gone /\ pc[p] = "serving" ~> pc[p] # "serving"

(* Why the first two hold: a request that the library has read is           *)
(* somebody's, and what counts it also looks at the engine.                 *)
SrvInv ==
  /\ ServerTypeOK
  /\ \A r \in Reqs : at[r] # "free" => to[r] \in Procs
  /\ HandlersSeeOpenEngine
=============================================================================
