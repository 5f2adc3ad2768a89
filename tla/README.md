# Formal verification of iina-torrent-stream

TLA+ models of the IINA torrent streaming plugin: its native daemon (`torrentd/`, Go) and the
plugin that launches and follows it (`src/`, TypeScript). TLC checks the models on small
instances, TLAPS proves the theorems for every value of the constants.

## 1. The system

A player window of IINA opens a magnet or `.torrent`. The plugin's *global entry* makes sure a
daemon runs, the window's *main entry* points mpv at the daemon's `/play` URL, and the daemon
adds the torrent to an anacrolix client and streams the primary file while it downloads.

| Component | State it keeps | Operations | Hard behaviour |
|---|---|---|---|
| **Torrent registry** (`engine.go`: Engine, managedTorrent, Add, Remove, Pause, Resume, Stream, completeMetadata, collectGarbage, recreateClient, Close) | `e.torrents`, the current client, each torrent's handle, pause flag, readers, warm context | HTTP handlers, metadata waiters, the idle collector, the client rebuild, shutdown | every one of them is a goroutine of its own; `Add` binds a handle and registers it in two critical sections; drops happen outside the lock; a rebuild replaces the client under everything else |
| **Network watchdog** (`netwatchdog.go`, `recoveryLoop`) | error counter, ring of three buckets, time of the last rebuild | log writer, tick | counter shared with every goroutine that logs; errors counted during a rebuild; back-off |
| **Daemon process** (`main.go`, `lifecycle.go`) | lock file, state file, cache directory, idle timer | start, publish, serve, idle out, shut down, crash | several processes on one directory; clean-up order; crash at any step |
| **Daemon launcher** (`daemon.ts`: ensureRunning, spawnDaemon; `global.ts`: sweepOrphanedCache, keepDaemonAlive) | cached port, in-flight launch | attach, spawn, retry, sweep, heartbeat | files checked and acted on later; a daemon on its way out still holds the lock |
| **Progress HUD and magnet dialog** (`global.ts`) | one shared window, in-flight operations, timers | show, hide, poll, prompt | one singleton window for two users, asynchronous operations that finish in any order |
| **Player window** (`index.ts`) | tracked torrent, timers, first-frame poller | on_load, ts-attach, close, pause mirroring | window closes while requests are in flight |
| **Warmers** (`engine.go`: warmTail, WarmNext, warmRegionAsync, runWarmReader, Prewarm) | warmed latches, warm context, look-ahead of each reader | warm the tail of a file, warm the next episode | a latch is set by one goroutine and taken back by another; cancelled by pause, drop and shutdown |
| **HTTP server** (`server.go`) | in-flight request count | one handler per endpoint | shutdown waits for the handlers it counted, and may meet late ones; `/play` waits for metadata while the torrent is rebound |
| **File selection** (`selectPrimaryIndex`, `nextVideoIndex`, `contiguousBytesAheadCore`) | none | which file plays, which is next, what can be read without waiting | boundaries of files and pieces, indexes that are not in the list |
| **Downloads and binary** (`ensureBinary`), options, logging, storage configuration, HTML pages | files | download, verify, render | pure I/O |

How the parts meet:

* The plugin runs in two kinds of JavaScript context: one *global entry*, and one *main entry* per
  player window. Contexts talk through IINA's messages (`ts-open-source`, `ts-progress-open`,
  `ts-progress-track`, `ts-progress-close`, `ts-attach`); each is single-threaded, and every `await`
  is a place where the others run.
* The plugin finds the daemon through a state file with its port and token, starts it, and talks
  HTTP to it. Heartbeats and status polls keep it alive; without them it stops after 30 s.
* In the daemon each request, metadata wait, collector scan, rebuild and the shutdown is a
  goroutine. They share `e.torrents` under `e.mu`, the current client under `clientMu`, the list of
  workers under `workerMu`.
* The watchdog sees the client's log lines and decides when `recreateClient` replaces the client.

What makes each part correct, and where it is stated:

| Component | Correct means | Stated in |
|---|---|---|
| Torrent registry | a served torrent is bound to the current client; nobody acts on a handle of a closed one; what is dropped stops; nothing survives `Close`, and `Close` ends; a viewer's torrent is not collected | `Registry`, `Binding` |
| `/play` | a request that waits is answered, and lists the files of a handle that has some | `Play` |
| Watchdog | every rebuild answers errors of the current client; storms and cool-downs end in a rebuild | `Watchdog` |
| Warmers | a region is warmed by one worker at a time, and again after a failed attempt; no warmer outlives what it was started for | `Warmers`, `Warmth` |
| File selection | as a definition by sets says, at every boundary | `Selection` |
| Daemon process | one daemon owns the directory; the state file describes it; the cache is its own | `Daemon` |
| HTTP server | no handler runs on a closed engine or on another daemon's cache; a stop completes, and an idle daemon stops | `Server` |
| Launcher, sweep | a launch ends, with a daemon that serves; old daemons give way; daemons end with IINA and leave nothing | `Plugin` |
| HUD and dialog | what is in flight is on the screen, and nothing outlives its operation | `Hud` |
| Player window | an operation's HUD entry is dismissed in the end; a closed window tracks nothing; an open one tracks what it plays | `Player` |

The modules build on each other: `Play` extends `Registry`, which implements `Binding`; `Warmers` extends
`Selection` and implements `Warmth`; `Server` and `Plugin` each extend `Daemon`; `Player`
extends `Hud`. The `MC` modules only bound the instances.

## 2. The registry: `Registry.tla`, `Binding.tla`, `Play.tla`

### State

| Model | Code |
|---|---|
| `swarm[ih]` | the `*torrent.Torrent` the current client has for an infohash, as a number; 0 when it has none |
| `born`, `epoch` | how many handles were made, and how many of them by clients that are closed |
| `info`, `trackers` | handles whose metadata is known; handles announced to the public trackers |
| `torrents[ih]` | `e.torrents`: which managedTorrent is tracked, 0 when none |
| `mt[ih][m]` | the managedTorrents ever made: handle `t`, `paused`, `warm` (its warm context is live), `idle` (`lastActiveAt` is older than the timeout), `readers` |
| `req[c]` | a goroutine in `Add` (pinning clientMu, with a handle to register) or in `Remove` (with a handle to drop) |
| `view[v]` | a goroutine in `Stream`, between the lookup and the registration, or reading |
| `waiters` | the `completeMetadata` goroutines: spawned, waiting, attaching trackers, dropping |
| `gcAt`, `evicted` | `gcLoop` and what its scan has still to drop |
| `rebAt`, `snaps`, `cur` | `recoveryLoop` inside `recreateClient` |
| `closer` | `Close` |

A critical section of `e.mu` or `e.workerMu` is one action. `clientMu` is held across actions and
is read off the program counters: `WriteLocked` and `ReadLocked`. `AddBind` merges taking the read
lock, the closed check and the call of the client: taking the lock commutes with whatever others
do before the bind, and a failed bind changes nothing. `Torrent.Drop` is external; it closes the one
handle it is called on. Two waiters in the same state about the same handle are one element of
`waiters`. Where a cancel or a drop directly follows a critical section of a goroutine that holds
the write lock, it is merged with it.

Metadata, timeouts, idleness, verdicts of the watchdog and the choices of `select` are
nondeterministic. A rebuilt handle may lose the metadata the old one had (`readdToClient`'s
fallback). `RebuildReaddFails` is the defensive branch of `resolveInfohash`.

### Properties

Safety, in `registry`:

* `NoStrandedTorrent`: a served torrent is bound to the current client, or the rebuild under way
  still has it to rebind.
* `NoStaleAttach`: a waiter that announces or drops a handle does so to one of the current client.
* `ForgottenIsCancelled`: each of the four ways to drop a torrent stops its warmers.
* `OrphanOnlyByRacedAdd`: a session that nobody is responsible for arises in one way only, an `Add`
  that adopts a handle another goroutine has dropped since. This is the one leak the code has, and
  the property says that there is no other.
* `NothingAfterClose`: no session, goroutine or pinned `Add` is left when the client is closed.
* `CollectorSparesViewers` (in `play_live`): registrations of several viewers do not undo each
  other.
* `BindingSpec`: the registry implements `Binding`, the abstract specification of client
  generations. `Served`, `Stale` and `Mode` are the refinement mapping.

Liveness, in `play_live`: `CloseCompletes`, `TrackersAttached` and `PlayEnds`. Fairness: every step of a
goroutine that can run is weakly fair; the ones that wait for `clientMu` (`WaiterGotInfo`,
`CloseSignal`) are strongly fair, because `sync.RWMutex` lets a waiting writer in before later readers
and readers in after a writer, so that neither starves. `PlayTimeout` is fair: `handlePlay` puts
`metadataTimeout` on its context. Requests, metadata, the waiters' timeouts, idleness, verdicts and the
call of `Close` have no fairness.

`GCSparesPlayback` (in `registry_gc_stream`) is the comment on `lastActiveAt`, which the code does not
meet: see section 9.

### `/play`

`Play` adds the request mpv opens a torrent with: its `Add` is that of `Registry` (`PlayBind`,
`PlayRegister`), `PlayLoad` keeps a handle, `PlayGotInfo` and `PlayTimeout` end the wait, and `PlayFiles`
is `handlePlay`, which loads the handle *again* (`Listed`). Between any two of them the rest of the
registry runs. `PlayEnds` says that the request is answered although the handle it waits on may be
dropped or closed under it and then never gets metadata. `FilesKnown` (run `play_files`) says that the
handle whose files are listed has metadata, which is not so after a rebuild in between: section 9.
That this is the only way is proved (`FilesOrRebound`): as long as `handlePlay` loads the handle that `Play` waited
for, no drop, timeout or rebuild in between matters.

### Bounds

`MaxHandle` and `MaxTorrent` bound the handles and registrations of an infohash. With two of each a
torrent is rebuilt, or dropped and added again, while goroutines still hold what came before: a
stale waiter, request or eviction needs no more than one predecessor. The run `registry` has two
request goroutines, the smallest number for an `Add` to race a `Remove` or another `Add`, and two
torrents, so that a rebuild has one bound and one still to bind. Its constraint `OneOrPair` explores
either one torrent with everything, or two with one request and two waiters at a time, each added once,
and before `Close`. `play_live` has two viewers and a `/play`, and a torrent may be forgotten but not
added again; its constraint `WaitOrRead` lets the viewers read while no `/play` is under way, and one of
them at most once `Close` is called, which does not look at viewers. Symmetry is used in the runs without liveness only.

## 3. The watchdog: `Watchdog.tla`

`count` is the counter of `resendErrorMonitor`, `window` and `idx` the ring of `recoveryLoop`, `since`
the time since `lastRebuild`, cut off at the back-off, `toTick` and `tick` the ticker and its channel of
one. `Write` counts an error at any time, during a rebuild too; `Tick` is the body of the loop;
`RebuildEnds` is what follows `recreateClient` (time stamp, ring cleared, counter not); `CloseDone` and
`Exit` are the shutdown. `stale` is a history variable: where errors are that were counted before the
last rebuild ended.

The hard property is `RebuildEarned`. The counter is not reset by a rebuild, so the first tick after
it counts errors of the old client. They cannot cause a rebuild, since they leave the ring before
the back-off is over, and that rests on the sizes: `Backoff > Buckets * Interval`
(60 s > 3 * 10 s in the code), which is the assumption of the module. `CoolDownEnds` and
`StormRebuilds` say that the back-off neither suppresses rebuilds for ever nor loses a storm.

The loop serves a tick before more time passes unless it is rebuilding. Fairness: time passes, the
loop runs, a rebuild ends. The run has intervals of 2 units, three buckets, a threshold of 2 and a
back-off of 7 units, one more than the window, the least the assumption allows, so that boundary
cases (exact threshold, exact back-off, wrap-around, ticks dropped during a rebuild) all occur.

## 4. The daemon: `Daemon.tla`

`pc[p]` is where `main` of a process is, `fd[p]` the inode it has open as its lock file, `held` the
processes that hold a flock, `link` the inode the path names, `stateFile` and `cache` whose contents
the files have. A flock belongs to an inode, so a process may wait for, or hold, the lock of a file
that has been unlinked. `Unpublish`, `PurgeCache`, `Release` and `Unlink` are the deferred calls in the
order they run; they act on paths, whoever the file belongs to. `Crash` is a kill or `log.Fatalf`: no
deferred call runs. A signal, `/shutdown` and the idle timeout are one action, `RequestStop`. The cache
may fail to be purged where the code goes on: at the end (`PurgeCacheFails`) and at a start
(`PrepareOverStale`, a warning in `main.go:164`). Unlinking the state file and the lock file does not fail.

`split` and `kept` are history variables: some process came to hold the lock of an unlinked inode; what a
predecessor left survived the purge at a start. `RequestStop` and `Drain` are worked out in module `Server`
(section 5), whose actions conjoin those of `Daemon`; the run `server` checks both together.
`OneOwner`, `ServingIsPublished` and `CacheIsOwn` say that *without a split* everything is right (`CacheIsOwn`
still wants a daemon's own data there when stale data was kept, and nothing but such data beside it), through
crashes anywhere: so the deferred order, the rename of the state file and the purge at start are
right, and the unlink of a lock file whose flock is already released is the only thing that is
wrong. `SingleDaemon` (run `plugin_single`) is the claim of the code without the condition.

## 5. The server and the end of a daemon: `Server.tla`, extending `Daemon`

`at`, `to` and `kind` describe the requests under way: read by the HTTP library (`Read`), then handed to
`ServeHTTP`, which counts them (`Enter`). Four kinds stand for the handlers: `poll` touches the idle timer
and returns; `long` (stream, play, prewarm) touches at both ends and may wait for peers or the player;
`stop` is `POST /shutdown`; `mute` is a request without the token, or `/debug`, which does not touch.
`idle`, `due`, `asked`, `stopping` are `lifecycle`: the time since the last activity, the monitor between
its look and its trigger, the trigger of `/shutdown`, the closed channel. `drain` follows `main` through
`Shutdown` (which returns in time, or gives up and closes the connections), `srv.wait()` and
`engine.Close()`. A request the library has read before it stopped may be handed over after `wait` has
returned: those are `late`.

* `HandlersSeeOpenEngine`, `ServedFromOwnCache`: a handler that was counted never meets a closed engine, nor a
  cache that another daemon has purged or made; a daemon that starts meanwhile is turned away until the
  last handler has returned. Late handlers are exempt; the code lets them in.
* `StopCompletes`: no handler keeps `wait` from returning. It rests on `CutOff`: a `long` handler returns once
  its context is cancelled, a blocked `Write` too (`engine.go:743`). `IdleStops`: after IINA quits the daemon
  stops by itself, although a stream never ends and somebody knocks without the token.

Fairness: goroutines run, time passes. Nobody owes a request, a signal or the end of a long request. The
run `server` has two daemons on one directory, with crashes. By `OneOrPair` one daemon alone meets two
requests at a time, two daemons meet one, and `d1` starts before `d2` (processes differ by name only). An
idle timeout of two intervals separates a touch, a look and a trigger.

## 6. The launcher: `Plugin.tla`, extending `Daemon`

`launch` is the point of `ensureRunningOnce`; every `await` ends an action, and what was read before
it (`seen`, the state file a health check is about) may be stale after it. `SingleFlight` makes all
callers share one launch, so there is one. `attempt`, `tick` and `exitedAt` are the counters of the
spawn loops, in polls; ports are named after the process that listens. `Legacy` processes are of an
older version, whose state file has no token: `RetirePost` and `LockWait` retire them. `sweep` is
`sweepOrphanedCache`, which looks and then runs `rm`; `KeptAlive` is `keepDaemonAlive` (10 s), taken to
win against the idle timeout (30 s); it follows the state file, and a daemon of an older version gets no
heartbeat, because `tokenForPort` throws. `Quit` and `Relaunch` are IINA's. History variables: `retired` is the
legacy daemon whose lock file a launch waits for; `ahead` and `met` are the processes that had come to the lock
file (those that have, or had, one open) when the launch, or the sweep, saw it gone.

* `LaunchFindsOwner`: every launch that is answered, from the cached port, the state file or a spawn, gives a
  daemon that serves at that moment, and that (without `split`) owns the directory.
* `RetiredLockIsFree`: waiting for a retired daemon's lock file pays: from then on, until the launch ends,
  neither that daemon nor any other that is ahead owns the directory (without `split`), and a child of that launch
  never opens a file one of them has open, so none of them can turn it away. A process that comes later may.
* `SweepInterlock`: of the daemons that had come to the lock file when the sweep looked, none owns the
  directory when `rm` runs, however late that is (without `split`). So what the sweep can still hit is a daemon
  that came later: that is `SweepSparesLive`.
* `LaunchSettles`, `FailedPurgeSwept`, `StopsAfterQuit`: liveness. Fairness: processes and requests make
  progress, the idle timer fires, the sweep runs every minute. Nobody has to quit, signal or crash.
  `FailedPurgeSwept` exempts daemons that died: the files they leave stop the sweep (section 9). It also
  exempts a daemon that could not purge at its start either (`kept`).
* `SweepSparesLive` (run `plugin_sweep`): a comment the code does not meet.

Two spawn attempts of two polls, one of grace and one of the lock file are each the least at which
every branch of the loops is taken. The run has one old and two new processes, the new ones named in the
order they start, with crashes, failed purges, quits and relaunches. By `TwoOrCalm` TLC explores three
processes only while IINA runs, no sweep is under way and nothing has crashed or left its cache behind; the three
safety properties are proved without that bound. With three processes `FailedPurgeSwept` is broken by `split`, and
is stated without it.

## 7. The shared window and the player windows: `Hud.tla`, `Player.tla`

IINA gives a plugin one standalone window. `queue` is the plugin queue (`setTimeout(fn, 0)`, first in
first out), `windowMode`, `progressOpen`, `push` (the push timer), `visible`, `pending` (the resolver of
the dialog) are the variables of `global.ts`; `active` and `polls` are the keys of `activeSources` and
those with a status timer; `shown` is the window. In `HudSpec` tasks about an operation are posted at any
time, in any order and any number (`Post`); in `Player` they are posted by whoever resolves a torrent.
Which of the remaining operations becomes visible is left open (in the code the oldest). The user closing the window by its title bar is not modelled: the code is not told.

`Player` adds `opening`, where each operation is (`resolveAndOpen`, or the in-place resolve of a window), and
`win`, the main entry of each window: what mpv plays, the HUD entry it has to close (`pendingId`, with its
first-frame poller), the attach under way, the tasks of its own queue that start tracking, and what it
tracks (`tracked`, with the timers). Every `await` ends an action. Messages arrive in order; one to a
window that is closed may be lost (`Resolved`). `stray` is a history variable: the operations nobody is left
to dismiss, because the task that creates the window threw (`Create`), because the window was given
another source, or because `ts-attach` found it closed or busy. `overlap` is another: a second source was
loaded in a window while one was resolving or attaching.

* `HudInv`: the bookkeeping agrees with itself whatever happens in whatever order.
* `ScreenRight`: as long as HUD and dialog never met (`shared`), an operation in flight, and a dialog
  somebody waits for, is on the screen. `HudOnScreen` (run `hud_screen`) is the comment's claim without the
  condition.
* `ClosedTracksNothing`: whatever was resolving, attaching or queued when a window closed, it starts no timers.
* `HudEnds`: the HUD entry of an operation goes away, in whatever order its window, its torrent and its tasks
  come and go, unless it is `stray`. So the three ways to become `stray` are the only leaks.
* `TracksWhatPlays`: without `overlap`, a window ends up tracking the torrent it plays, and keeps to it. An attach
  that gives up after the retries of the status leaves the torrent untracked, and is exempt.

Fairness: tasks of the queues run, requests are answered or give up (`addTorrent` has a deadline of 90 s, the
status retries about 15 s), the first-frame poller ends (6 min). Nobody has to open or close a window, or
to answer the dialog. The queue is bounded by `MaxQueue`; `DialogStep` leaves one place free, so that clicks
of the user cannot keep the tasks of the program out of a queue that is unbounded in the code.

Two operations and two windows: one source replaces or outlives another, and one window closes while
another opens. By `Ordered`, operation `a` begins before `b` and window `w1` opens before `w2` (they differ by
name only); by `MetAlone`, once HUD and dialog have met, no window is explored, since what they do to each
other is the HUD's alone.

## 8. The warmers and the file selection: `Warmers.tla`, `Warmth.tla`, `Selection.tla`

`Warmers` is one torrent. `latched` holds the regions whose latch (`mt.warmed`, `mt.warmedHead`) is set, `context`
and `cancelled` the warm contexts, `rq` the goroutines in `Stream` and `WarmNext`, `wk` the worker goroutines, `ahead`
the look-ahead of each reader in `mt.readers`, `have` the pieces on disk. `Latch` checks and sets a latch and
reads the context under the lock; `Spawn` or `Refuse` comes later, and `Unlatch` after a refusal; a worker
registers its reader, reads (`ReadAll`, `ReadFails`) and unregisters.

* `WarmInv`: each warm-up has one owner at a time, and a latch nobody is responsible for is that of a region on
  disk. It is inductive.
* `NoWarmerOutlives`: on a paused or dropped torrent nobody holds a live context, not even a request that
  latched a region before and has yet to start its worker; a closed engine has no workers.
* `ReadaheadFollowsPause`: readers that come and go around a pause have the look-ahead it asks for.
* `WarmthSpec`: `Warmers` implements `Warmth`, which says that a region is fetched by one worker at a time, never
  again once warm, and goes cold if the attempt fails. `Warming`, `Warmed` are the refinement mapping.
* `LatchReleased`, `CloseEnds`: a paused torrent ends up with no latch on a region that was not fetched, and
  `Close` ends although no piece has to arrive. Fairness: goroutines that can run do.
* `SelectionRight`, `AheadRight`: `selectPrimaryIndex`, `nextVideoIndex` and `contiguousBytesAheadCore`, translated as
  the loops they are, against definitions by sets, on every list of up to two files that are empty, one
  byte, or longer than a piece, and of three that are empty or longer than a piece, videos or not, from every
  index and offset and with any pieces on disk.

One `Stream`, one `WarmNext` and two workers, two contexts (a pause and a resume): a region has a first and
a second claimant, and a worker of the old context meets one of the new. The file list that is warmed
(`Played`) has two files in one piece, one shorter than its tail; behind the other lists only their decisions
are checked, and a torrent that was dropped is not followed through `Close` (`MCPlayed`).

## 9. Where the code and its comments disagree

Each of these is a run that TLC must find violated:

* `plugin_single` (`main.go:130`): the lock file is unlinked after its flock is released. A process that
  opened it before locks an inode no path names; the next one creates another file, and two
  daemons own one directory. Comparing the inode of the descriptor with that of the path after the
  flock would tell.
* `registry_gc_stream` (`engine.go:686`): `Stream` looks a torrent up and registers its reader later; an
  idle torrent may be collected in between, and its handle is dropped under the new stream.
* `plugin_sweep` (`global.ts:275`): the sweep looks for the daemon's files and removes the cache later,
  in another process; a daemon that starts in between loses its fresh cache.
* `hud_screen` (`global.ts:428`): answering the magnet dialog closes the window under an operation in
  flight and leaves `progressOpen` true, so it does not come back.
* `play_files` (`server.go:232`): `Play` waits for the metadata of one handle and `handlePlay` asks the torrent's
  handle of that moment for its files. After a rebuild in between that one may have no metadata, and the
  comment at `engine.go:1213` says what `Files()` does then. `Stream` (691) and `Prewarm` (806) do not look either.

Seen while modelling, not stated as runs:

* A crash leaves the lock file, and the sweep then never removes the cache (`global.ts:255`, against
  `global.ts:239`). `keepDaemonAlive` keeps the daemon for as long as IINA runs, against `README.md:55`.
* A re-open adopts a handle that may be dropped (`engine.go:420`; `OrphanOnlyByRacedAdd` is about its effect).
* `Play` neither touches the torrent nor registers a reader, and the collector's timeout (2 min) is shorter than
  `metadataTimeout` (5 min): it can drop the torrent a `/play` waits for.
* A stream touches the daemon's idle timer when it starts and ends only (`server.go:195`), so a long one without
  polls and heartbeats does not keep the daemon. The grace of an empty daemon that `handleHealth` mentions
  (`server.go:111`) does not exist.
* The tail of a file shorter than 4 MiB ends in EOF, so its latch is never kept (`warmTail`). `Prewarm`'s reader is
  not in `mt.readers`, so a pause leaves its look-ahead (`engine.go:796`).
* `WarmNext` reads `paused` and latches later: it may answer neither started nor deferred, and `index.ts:302` then
  does not ask again for that file.
* `handlePrewarm`'s limit of 60 s is not below the idle timeout of 30 s (`server.go:291`).
* A health probe between the monitor's look and its trigger is answered by a daemon that stops at once.
* `window-will-close` does not dismiss the operation of a menu window that has no `ts-attach` yet (against
  `global.ts:367`), and `ts-attach` to a window with another pending source leaves its HUD entry for good.
* Of two sources loaded in one window, the one that resolves last is tracked, whichever plays (`overlap`).

## 10. Runs

| Run | Module, cfg | Shows |
|---|---|---|
| `registry` | `MCRegistry`, `Registry.cfg` | inductive and safety invariants, the one leak, refinement of `Binding` |
| `play_live` | `MCPlay`, `PlayLive.cfg` | `Close` completes, trackers attach, viewers keep their torrent, `/play` is answered |
| `registry_gc_stream` | `MCRegistry`, `RegistryGCStream.cfg` | violated: a collected torrent gets a reader |
| `play_files` | `MCPlay`, `PlayFiles.cfg` | violated: the files of a handle without metadata are asked for |
| `watchdog` | `Watchdog`, `Watchdog.cfg` | rebuilds are earned and not missed |
| `server` | `MCServer`, `Server.cfg` | one owner through crashes; handlers keep engine and cache; stops complete |
| `plugin` | `MCPlugin`, `Plugin.cfg` | a launch ends, with the owner; what the two looks at the lock file promise; shutdowns and sweeps complete |
| `plugin_sweep`, `plugin_single` | `MCPlugin` | violated: the races of sections 4 and 6 |
| `player` | `MCPlayer`, `Player.cfg` | the HUD, and the windows that drive it |
| `hud_screen` | `MCPlayer`, `HudScreen.cfg` | violated: the dialog closes the HUD |
| `warmers` | `MCWarmers`, `Warmers.cfg` | latches and contexts; refinement of `Warmth`; the file selection |

TLC finds 1,186,140 distinct states in `registry`, 114,139 in `play_live`, 19,845 in `watchdog`, 54,766 in
`server`, 181,430 in `plugin`, 188,848 in `player` and 160,316 in
`warmers`. `CHECK_DEADLOCK FALSE` is given where the model really stops: in `server` when all its processes are over,
in `warmers` when the engine is closed and no request is left.

Definitions marked `\* mutant` are what a plausible bug in the code would make of the definition that
follows. They are in no specification; substituted for it, each one breaks a property of a run.

## 11. Proofs

All proofs hold for any values of the constants within the named assumptions.

| Module | Theorems | Argument |
|---|---|---|
| `RegistryProofs` | `TypeCorrect`, `Inductive`, `NeverStranded`, `NeverStaleAttach` | `IInv` |
| `RegistrySafety` | `QuietAfterClose`, `DropCancels`, `ViewersSpared`, `OrphansOnlyRaced`, `RefinesBinding` | invariants of their own on top of `IInv`, `OInv` for orphans; each step is a step of `Binding` or a stutter |
| `RegistrySafety` (`/play`) | `PlayViewersSpared`, `FilesOrRebound` | `PlayInv`, on top of what `Registry` promises |
| `WatchdogProofs` | `WatchdogTypeCorrect`, `WatchdogInductive`, `RebuildsEarned` | `WInv` |
| `DaemonProofs` | `SingleOwner`, `StateFileRight`, `CacheNotMixed`, `DaemonInductive` | `DInv` |
| `ServerProofs` | `HandlersHaveEngine`, `HandlersHaveCache` | `SrvInv` on top of `SInv` |
| `PluginProofs` | `PluginKeepsSingleton`, `LaunchRight`, `RetirePays`, `InterlockHolds`, `PluginTypeCorrect` | `SInv` of `Daemon`, that the legacy daemon to stop is a process, and `LauncherInv`, which bounds the counters by the state the loop is in; `RInv` for the two looks at the lock file |
| `HudProofs` | `HudTypeCorrect`, `HudConsistent`, `PlayerTypeCorrect`, `PlayerHudConsistent`, `HudScreenRight`, `PlayerScreenRight`, `WindowsEnd` | `HudInv` is inductive with the type invariant, `SInv` on top of it |
| `WarmersProofs` | `LatchesTellTheTruth`, `WarmersEnd`, `ReadersFollow`, `RefinesWarmth` | `WarmInv` and `ContextsEnd` are inductive; each step is a step of `Warmth` or a stutter |
| `WarmersProofs` (selection) | `PrimaryFound`, `NextFound`, `AheadFound`, `ChoicesRight`, `LookAheadRight` | least counterexamples |

*Registry.* `NoStrandedTorrent` is not inductive: a rebuild makes every torrent stale at once and then
visits the snapshot. `IInv` adds that handles are numbered in the order they are made and that those
of the current client are exactly the ones above `epoch`; that the snapshot covers what is tracked
until the swap (nothing is added meanwhile, because `Add` holds the read side: `LockExclusive`); and that
every goroutine that holds `clientMu` holds a handle of the current client. Assumed: the callers are
finitely many, `NoHash` is no infohash, the bounds are numbers. `CollectorSparesViewers` needs one fact
more: a viewer that reads is among the readers of its managedTorrent, which was made (`ViewersCounted`);
no other step changes a readers set, and a viewer changes only its own membership.

*Orphans.* `OrphanOnlyByRacedAdd` asks of every step that the owner of a session stays its owner or hands it
on: a pinned `Add` to the registry, the registry to whoever forgets the torrent, a rebuild to the commit. That
fails where a handle is not the one the client has, so `OInv` says what the handles are: the client has the
last one made for an infohash or none (`HandlesLast`), what a rebuild has still to visit has none, the one to
be committed is the last, and what a `Remove` has forgotten is not what is tracked by now. The one case left
is an `Add` that adopts an older handle for a tracked torrent.

*`/play`.* A request reaches the registry through `Add` only, so that `PlaySpec` implies `Spec` by construction (the
lemma `PlayIsRegistry`), and every theorem above holds while requests wait. `FilesOrRebound` rests on metadata never being lost by the handle that has it.

*Watchdog.* `StaleIsYoung` ties the age of an old error to the time since the rebuild: in the counter
for at most one interval, in bucket `i` until the ring comes round. With the back-off longer than the
ring, none is left when a rebuild may be decided.

*Daemon.* `LockInv` says which states hold a flock, and that without `split` every holder has the linked
inode open; two holders would hold one inode. The state file and the cache follow, since only a
holder touches them.

*Plugin.* A step of the plugin is a step of the daemons or touches only the cache, so what `Daemon`
promises carries over, except `CacheIsOwn`, which the sweep breaks. `RetiredLockIsFree` and
`SweepInterlock` rest on inodes being named after their makers: a file that is open, or that the path or the state
file names, is of a process that has come to the lock file (`FilesInv`), so one that is created later is a file
nobody had open before. When the path names nothing, nobody owns the directory without a `split` (`NoneOwns`); of
those ahead, or met, none has the linked file open any more, and none ever will (`AheadInv`, `MetInv`), so none can
take the lock of a linked file or share one with a later process. `RetireInv` says that a launch waits only for a
daemon that had come to its lock file. Each step of a process changes the files in one of a few ways (`Moves`).

*Server.* A request that the library has read belongs to a process, and what counts a handler also keeps the
engine: `wait` passes only when none is counted, and then the daemon closes the engine (`SrvInv`). As the
actions conjoin those of `Daemon` (the lemma `ServerIsDaemon`), what `DaemonProofs` says of owners and caches holds of
a daemon that serves, and the cache of a
handler follows from the state its daemon must be in.

*HUD.* `ScreenRight` depends on what is still in the queue. `SInv` says that as long as HUD and dialog have not met,
the mode is that of the user the window has (`ModeRight`), a task that closes a dialog runs only after one that
opened it and with no other close in between (`DialogsInTurn`), and so will the answer to a dialog somebody
waits for (`AnswerInTurn`); the order in which tasks are posted then decides what shows.

*Player.* The steps of windows and operations reach the HUD only through tasks, so `HudInv` carries over
(the lemma `PlayerIsHud`). `ClosedTracksNothing` is inductive: a closed window stays closed, and the one place that starts
tracking looks.

*Warmers.* `OwnedOnce` and `WarmMeansFetched` need each other: a latch is handed from a request to a worker in one
step, and whoever gives up takes it back. `ContextsEnd` says that only the last context made may be live.
`RefinesWarmth` follows from both.

*Selection.* The loops are recursive functions over the indexes of a list of any length, and the provers have no
induction over them. Each proof takes the least index at which the loop and the definition by sets disagree
instead (`LeastNatural`, from the well-foundedness of strict inclusion of finite sets), and the step of the
recursion contradicts it. The runs' `SelectionRight` and `AheadRight` follow for every list `Warmers` may have.

The type invariants, `DInv`, `SrvInv` and `WInv` are in no run: they are proved for every value of the constants.

Every invariant and action property of a passing run is the subject of a theorem. Only model-checked: liveness
under fairness and everything that needs `ENABLED`, which TLAPS does not prove (`CloseCompletes`,
`TrackersAttached`, `PlayEnds`, `CoolDownEnds`, `StormRebuilds`, `StopCompletes`, `IdleStops`, `LaunchSettles`,
`StopsAfterQuit`, `FailedPurgeSwept`, `HudEnds`, `TracksWhatPlays`, `LatchReleased`, `CloseEnds`).

## 12. Not modelled

The torrent client itself (peers, pieces, rates): it is the environment, as the code uses it. Parsing,
the token check, JSON, log lines, options and web pages: no state others rely on. Downloading the
binary and loading `.torrent` files: they may fail, and that is all that is modelled. Status sampling:
numbers for display. `Prewarm` beyond a long request: it keeps no state in the engine. Of the player window:
the sidebar, the subtitles `attachTracking` fetches (an `await` of its own, inside `AttachStarts`), mpv's buffer
settings, `watchProgress`, whose requests `Warmers` takes at any time, and the mirroring of mpv's pause, whose
requests `Registry` and `Warmers` take in any order. Which extensions make a video, and the text of a playlist.

## 13. Plan

Done: all the modules above and their proofs. Open:

1. The pause state of mpv against that of the torrent, if the plugin comes to order its requests.
2. `Play` composed with `Server`, so that its end at shutdown is that of the handler.
3. The halves of the liveness arguments that need no `ENABLED`: that a state which must be left is left forward only.
