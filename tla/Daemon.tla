------------------------------- MODULE Daemon -------------------------------
(***************************************************************************)
(* The daemon processes of one data directory (torrentd/main.go) and the   *)
(* files they share: the lock file with its flock, the state file the      *)
(* plugin finds a daemon by, and the scratch cache.  Module Plugin composes *)
(* it with the launcher and the cache sweep of the plugin.                 *)
(*                                                                         *)
(* A flock belongs to an inode and not to a path: a process may wait for,  *)
(* or hold, the lock of a file that has been unlinked since it opened it.  *)
(* An inode is named after the process that created it.                    *)
(***************************************************************************)
EXTENDS FiniteSets

CONSTANTS
  Procs,      \* the daemon processes ever started
  None,       \* no process, no file
  MayCrash,   \* whether processes are killed, or end in log.Fatalf
  MayLeave    \* whether a purge of the cache may fail for good, at the exit or at a start

ASSUME DaemonAssumption == None \notin Procs /\ {MayCrash, MayLeave} \subseteq BOOLEAN

VARIABLES
  pc,         \* where main() of each process is
  fd,         \* the inode a process has open as its lock file
  held,       \* the processes that hold the flock of the inode they have open
  link,       \* the inode the path torrentd.lock names
  stateFile,  \* the process that torrentd.json describes
  cache,      \* the processes whose data is in the cache directory
  kept,       \* history: data a predecessor left survived the purge at a start
  split       \* history: a process came to hold the flock of an unlinked inode

lockVars   == <<fd, held, link, split>>
cacheVars  == <<cache, kept>>
daemonVars == <<pc, lockVars, stateFile, cacheVars>>

Before   == {"none", "starting", "opened"}
Running  == {"locked", "prepared", "serving", "draining"}
Unwind   == {"closed", "unpublished", "purged", "released"}   \* the deferred calls
Over     == {"refused", "exited", "dead"}

Locked(i) == \E p \in held : fd[p] = i

TypeOK ==
  /\ pc \in [Procs -> Before \cup Running \cup Unwind \cup Over]
  /\ fd \in [Procs -> Procs \cup {None}]
  /\ held \subseteq Procs
  /\ link \in Procs \cup {None}
  /\ stateFile \in Procs \cup {None}
  /\ cache \subseteq Procs
  /\ split \in BOOLEAN /\ kept \in BOOLEAN

Init ==
  /\ pc = [p \in Procs |-> "none"] /\ fd = [p \in Procs |-> None]
  /\ held = {} /\ link = None /\ stateFile = None /\ cache = {} /\ split = FALSE /\ kept = FALSE

Goes(p, from, to) == pc[p] = from /\ pc' = [pc EXCEPT ![p] = to]

-----------------------------------------------------------------------------
(* Start-up.                                                                *)
Start(p) ==
  /\ Goes(p, "none", "starting")
  /\ UNCHANGED <<lockVars, stateFile, cacheVars>>

OpenLock(p) ==
  /\ Goes(p, "starting", "opened")
  /\ link' = IF link = None THEN p ELSE link
  /\ fd' = [fd EXCEPT ![p] = link']
  /\ UNCHANGED <<held, split, stateFile, cacheVars>>

FlockBlind(p) ==                 \* mutant: the flock does not exclude others
  /\ Goes(p, "opened", "locked")
  /\ held' = held \cup {p}
  /\ split' = (split \/ fd[p] # link)
  /\ UNCHANGED <<fd, link, stateFile, cacheVars>>

Flock(p) ==
  /\ Goes(p, "opened", "locked")
  /\ ~Locked(fd[p])
  /\ held' = held \cup {p}
  /\ split' = (split \/ fd[p] # link)
  /\ UNCHANGED <<fd, link, stateFile, cacheVars>>

RefuseCleans(p) ==               \* mutant: the deferred calls run here too
  /\ Goes(p, "opened", "refused")
  /\ Locked(fd[p])
  /\ fd' = [fd EXCEPT ![p] = None]
  /\ stateFile' = None
  /\ UNCHANGED <<held, link, split, cacheVars>>

(* ALREADY-RUNNING.                                                         *)
Refuse(p) ==
  /\ Goes(p, "opened", "refused")
  /\ Locked(fd[p])
  /\ fd' = [fd EXCEPT ![p] = None]
  /\ UNCHANGED <<held, link, split, stateFile, cacheVars>>

PrepareOnTop(p) ==               \* mutant: what a crash left is not purged
  /\ Goes(p, "locked", "prepared")
  /\ cache' = cache \cup {p} /\ kept' = FALSE
  /\ UNCHANGED <<lockVars, stateFile>>

(* Stale data is purged and the engine makes its own.                       *)
Prepare(p) ==
  /\ Goes(p, "locked", "prepared")
  /\ cache' = {p} /\ kept' = FALSE
  /\ UNCHANGED <<lockVars, stateFile>>

(* The purge of stale data fails: main() warns and goes on.                 *)
PrepareOverStale(p) ==
  /\ MayLeave /\ cache # {}
  /\ Goes(p, "locked", "prepared")
  /\ cache' = cache \cup {p} /\ kept' = TRUE
  /\ UNCHANGED <<lockVars, stateFile>>

Publish(p) ==
  /\ Goes(p, "prepared", "serving")
  /\ stateFile' = p
  /\ UNCHANGED <<lockVars, cacheVars>>

PublishFails(p) ==
  /\ Goes(p, "prepared", "closed")
  /\ UNCHANGED <<lockVars, stateFile, cacheVars>>

-----------------------------------------------------------------------------
(* Shutdown: a signal, POST /shutdown, the idle timeout or a server failure *)
(* ends the wait of main(); then the server drains and the engine closes.   *)
RequestStop(p) ==
  /\ Goes(p, "serving", "draining")
  /\ UNCHANGED <<lockVars, stateFile, cacheVars>>

Drain(p) ==
  /\ Goes(p, "draining", "closed")
  /\ UNCHANGED <<lockVars, stateFile, cacheVars>>

(* The deferred calls, last in first out.  They act on paths, whoever the   *)
(* file belongs to.                                                         *)
Unpublish(p) ==
  /\ Goes(p, "closed", "unpublished")
  /\ stateFile' = None
  /\ UNCHANGED <<lockVars, cacheVars>>

PurgeCache(p) ==
  /\ Goes(p, "unpublished", "purged")
  /\ cache' = {} /\ kept' = FALSE
  /\ UNCHANGED <<lockVars, stateFile>>

(* Every attempt found files that the client's pool had recreated.          *)
PurgeCacheFails(p) ==
  /\ MayLeave
  /\ Goes(p, "unpublished", "purged")
  /\ UNCHANGED <<lockVars, stateFile, cacheVars>>

Release(p) ==
  /\ Goes(p, "purged", "released")
  /\ held' = held \ {p}
  /\ fd' = [fd EXCEPT ![p] = None]
  /\ UNCHANGED <<link, split, stateFile, cacheVars>>

UnlinkNever(p) ==                \* mutant: the lock file stays
  /\ Goes(p, "released", "exited")
  /\ UNCHANGED <<lockVars, stateFile, cacheVars>>

Unlink(p) ==
  /\ Goes(p, "released", "exited")
  /\ link' = None
  /\ split' = (split \/ \E q \in held : fd[q] = link)
  /\ UNCHANGED <<fd, held, stateFile, cacheVars>>

(* A kill, or log.Fatalf: no deferred call runs, the kernel drops the flock. *)
Crash(p) ==
  /\ MayCrash
  /\ pc[p] \notin {"none"} \cup Over
  /\ pc' = [pc EXCEPT ![p] = "dead"]
  /\ held' = held \ {p}
  /\ fd' = [fd EXCEPT ![p] = None]
  /\ UNCHANGED <<link, split, stateFile, cacheVars>>

Startup(p)  ==
  \/ OpenLock(p) \/ Flock(p) \/ Refuse(p)
  \/ Prepare(p) \/ PrepareOverStale(p) \/ Publish(p) \/ PublishFails(p)
Shutdown(p) == Drain(p) \/ Unpublish(p) \/ PurgeCache(p) \/ PurgeCacheFails(p) \/ Release(p) \/ Unlink(p)
Proceed(p)  == Startup(p) \/ Shutdown(p)

Next == \E p \in Procs : Start(p) \/ Startup(p) \/ RequestStop(p) \/ Shutdown(p) \/ Crash(p)

Spec == Init /\ [][Next]_daemonVars

-----------------------------------------------------------------------------
(* As long as no process has locked an unlinked file, one daemon at most    *)
(* owns the directory, through start-ups, clean exits and crashes at every  *)
(* step, whatever files a crash left behind.                                *)
OneOwner == ~split => \A p, q \in held : p = q

(* ... and then the plugin's way to find a daemon is right: a daemon that   *)
(* serves is the one the state file describes, and nobody removed its file  *)
(* or replaced it.                                                          *)
ServingIsPublished == ~split => \A p \in Procs : pc[p] = "serving" => stateFile = p

(* ... and the cache holds the data of the daemon that runs, which no other *)
(* removes, and nothing a crashed or failed predecessor left, unless the    *)
(* purge at the start failed.                                               *)
CacheIsOwn ==
  ~split => \A p \in Procs : pc[p] \in {"prepared", "serving", "draining"} =>
               p \in cache /\ (cache = {p} \/ kept)

(* The comment at main.go:117, which the unlink of a released lock breaks.  *)
SingleDaemon == \A p, q \in held : p = q

(* Why they hold: a process holds the flock exactly in the states between   *)
(* Flock and Release, and as long as nobody locked an unlinked file every   *)
(* owner has the linked inode open, so that a second Flock is refused.      *)
LockInv ==
  /\ \A p \in Procs : p \in held <=> pc[p] \in Running \cup (Unwind \ {"released"})
  /\ \A p \in Procs : fd[p] = None <=> pc[p] \in {"none", "starting", "released"} \cup Over
  /\ \A p, q \in held : fd[p] = fd[q] => p = q
  /\ ~split => \A p \in held : fd[p] = link

SInv == TypeOK /\ LockInv /\ ServingIsPublished

DInv == SInv /\ CacheIsOwn
=============================================================================
