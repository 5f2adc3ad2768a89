------------------------------- MODULE Player -------------------------------
(***************************************************************************)
(* Opening a torrent in a player window: resolveAndOpen of the global      *)
(* entry (src/global.ts) and the main entry of every window (src/index.ts),*)
(* composed with the HUD they report to.  An operation opens one source,   *)
(* from a menu in a new window or in place, in a window that is open.      *)
(*                                                                         *)
(* Every await ends an action.  IINA delivers the messages between the     *)
(* entries in order; one to a window that is closed may be lost.           *)
(***************************************************************************)
EXTENDS Hud, FiniteSets

CONSTANT Windows       \* the player windows there are at most

ASSUME PlayerAssumption == IsFiniteSet(Windows) /\ IsFiniteSet(Ops) /\ None \notin Windows

VARIABLES
  opening, \* where each operation is
  win,     \* each window and the state of its main entry
  stray    \* history: the operations nobody is left to hide

playerVars == <<hudVars, opening, win, stray>>

Stages    == {"new", "launching", "creating", "adding", "resolved", "failed", "stuck"}
Operation == [at: Stages, home: Windows \cup {None}, inPlace: BOOLEAN]
Window    == [life: {"none", "open", "closed"},
              plays: Ops \cup {None},      \* what mpv loads
              pendingId: Ops \cup {None},  \* pendingProgressId, its poller running
              attaching: Ops \cup {None},  \* in attachTracking
              starts: Seq(Ops),            \* tasks of the window's own queue
              tracked: Ops \cup {None},    \* active, its timers running
              overlap: BOOLEAN]            \* history: two operations at a time

PlayerTypeOK ==
  /\ HudTypeOK
  /\ opening \in [Ops -> Operation] /\ win \in [Windows -> Window] /\ stray \subseteq Ops

PlayerInit ==
  /\ HudInit
  /\ opening = [o \in Ops |-> [at |-> "new", home |-> None, inPlace |-> FALSE]]
  /\ win = [w \in Windows |-> [life |-> "none", plays |-> None, pendingId |-> None,
                               attaching |-> None, starts |-> <<>>, tracked |-> None,
                               overlap |-> FALSE]]
  /\ stray = {}

Unused     == {w \in Windows : win[w].life = "none"}
Creating   == {o \in Ops : opening[o].at = "creating"}
Open(w)    == win[w].life = "open"
Advance(o, stage) == opening' = [opening EXCEPT ![o].at = stage]
Becomes(w, r)     == win' = [win EXCEPT ![w] = r]

(* What a main entry does to its window leaves the HUD's state alone.       *)
Quiet == UNCHANGED hudVars

-----------------------------------------------------------------------------
(* resolveAndOpen, from the dialog, the file menu or "ts-open-source": the  *)
(* HUD is shown and the daemon launched.                                    *)
OpenFromDialog(o) ==
  /\ opening[o].at = "new" /\ MagnetSubmit(o)
  /\ Advance(o, "launching")
  /\ UNCHANGED <<win, stray>>

OpenFromMenu(o) ==
  /\ opening[o].at = "new" /\ Post("show", o)
  /\ Advance(o, "launching")
  /\ UNCHANGED <<win, stray>>

Launched(o) ==
  /\ opening[o].at = "launching"
  /\ Cardinality(Creating) < Cardinality(Unused)
  /\ Post("create", o)
  /\ Advance(o, "creating")
  /\ UNCHANGED <<win, stray>>

LaunchFails(o) ==
  /\ opening[o].at = "launching"
  /\ Post("hide", o)
  /\ Advance(o, "failed")
  /\ UNCHANGED <<win, stray>>

(* The task that creates the window.  playURL throws if the state file went *)
(* away meanwhile, and resolveAndOpen is not heard of again.                *)
Create(o) ==
  \/ \E w \in Unused :
       /\ Becomes(w, [win[w] EXCEPT !.life = "open", !.plays = o])
       /\ opening' = [opening EXCEPT ![o].at = "adding", ![o].home = w]
       /\ UNCHANGED stray
  \/ /\ Advance(o, "stuck")
     /\ stray' = stray \cup {o}
     /\ UNCHANGED win

RunHudTask ==
  /\ RunTask
  /\ IF Head(queue).kind = "create"
     THEN Create(Head(queue).op)
     ELSE UNCHANGED <<opening, win, stray>>

-----------------------------------------------------------------------------
(* attachTracking: nothing while another torrent is attaching.              *)
AttachingOnce(r, o) ==   \* mutant: a window that tracks one torrent keeps it
  IF r.tracked # None \/ r.attaching # None THEN r ELSE [r EXCEPT !.attaching = o]

Attaching(r, o) ==
  IF r.tracked = o \/ r.attaching # None THEN r ELSE [r EXCEPT !.attaching = o]

(* "ts-attach": the window learns the operation it has to close.            *)
Attached(r, o) ==
  Attaching([r EXCEPT !.pendingId = IF @ = None THEN o ELSE @], o)

(* The metadata came, after POST /torrents of the global entry, ...         *)
Resolved(o) ==
  /\ opening[o].at = "adding" /\ ~opening[o].inPlace
  /\ Post("poll", o)
  /\ Advance(o, "resolved")
  /\ LET w == opening[o].home
     IN \/ /\ Becomes(w, Attached(win[w], o))
           /\ stray' = IF win[w].pendingId = None THEN stray ELSE stray \cup {o}
        \/ ~Open(w) /\ stray' = stray \cup {o} /\ UNCHANGED win

(* ... or it did not, or the operation was dismissed.                       *)
ResolveFails(o) ==
  /\ opening[o].at = "adding" /\ ~opening[o].inPlace
  /\ Post("hide", o)
  /\ Advance(o, "failed")
  /\ UNCHANGED <<win, stray>>

-----------------------------------------------------------------------------
(* on_load of a torrent source in a window that is open, with the daemon    *)
(* running: mpv gets the /play URL and the main entry resolves the source.  *)
Busy(w) ==
  \/ win[w].attaching # None \/ win[w].starts # <<>>
  \/ \E o \in Ops : opening[o].home = w /\ opening[o].at = "adding"

OnLoad(w, o) ==
  /\ Open(w) /\ opening[o].at = "new"
  /\ Post("show", o)                                        \* ts-progress-open
  /\ opening' = [opening EXCEPT ![o] = [at |-> "adding", home |-> w, inPlace |-> TRUE]]
  /\ Becomes(w, [win[w] EXCEPT !.plays = o, !.pendingId = o, !.overlap = @ \/ Busy(w)])
  /\ stray' = stray \cup ({win[w].pendingId} \ {None})

(* attachAfterResolve.                                                      *)
ResolvedInPlace(o) ==
  LET w == opening[o].home
  IN /\ opening[o].at = "adding" /\ opening[o].inPlace
     /\ Advance(o, "resolved")
     /\ IF Open(w)
        THEN /\ Post("poll", o)                             \* ts-progress-track
             /\ Becomes(w, Attaching(win[w], o))
        ELSE Quiet /\ UNCHANGED win
     /\ UNCHANGED stray

(* closePendingProgress.                                                    *)
ClosePending(w) ==
  IF win[w].pendingId = None THEN Quiet ELSE Post("hide", win[w].pendingId)

FailSilently(o) ==       \* mutant: the error is not shown and the HUD not closed
  /\ opening[o].at = "adding" /\ opening[o].inPlace
  /\ Advance(o, "failed")
  /\ Quiet /\ Becomes(opening[o].home, [win[opening[o].home] EXCEPT !.pendingId = None])
  /\ UNCHANGED stray

FailsInPlace(o) ==
  LET w == opening[o].home
  IN /\ opening[o].at = "adding" /\ opening[o].inPlace
     /\ Advance(o, "failed")
     /\ IF Open(w) /\ win[w].pendingId = o
        THEN ClosePending(w) /\ Becomes(w, [win[w] EXCEPT !.pendingId = None])
        ELSE Quiet /\ UNCHANGED win
     /\ UNCHANGED stray

-----------------------------------------------------------------------------
(* The rest of attachTracking: a status, and a task that starts tracking.   *)
AttachStarts(w) ==
  /\ win[w].attaching # None
  /\ Becomes(w, [win[w] EXCEPT !.attaching = None,
                                !.starts = Append(win[w].starts, win[w].attaching)])
  /\ Quiet /\ UNCHANGED <<opening, stray>>

(* No status after every retry, or the window is closed: it is looked at    *)
(* before the subtitles are fetched, and again by the task.                 *)
AttachFails(w) ==
  /\ win[w].attaching # None
  /\ Becomes(w, [win[w] EXCEPT !.attaching = None])
  /\ Advance(win[w].attaching, "failed")
  /\ Quiet /\ UNCHANGED stray

StartBlind(w) ==         \* mutant: windowClosed is not checked again
  /\ win[w].starts # <<>>
  /\ Becomes(w, [win[w] EXCEPT !.starts = Tail(@), !.tracked = Head(win[w].starts)])
  /\ Quiet /\ UNCHANGED <<opening, stray>>

StartTracking(w) ==
  /\ win[w].starts # <<>>
  /\ Becomes(w, [win[w] EXCEPT !.starts = Tail(@),
                                !.tracked = IF Open(w) THEN Head(win[w].starts) ELSE @])
  /\ Quiet /\ UNCHANGED <<opening, stray>>

(* The first-frame poller finds the window visible, or its deadline passed. *)
FirstFrame(w) ==
  /\ win[w].pendingId # None
  /\ ClosePending(w)
  /\ Becomes(w, [win[w] EXCEPT !.pendingId = None])
  /\ UNCHANGED <<opening, stray>>

OpenWindow(w) ==
  /\ w \in Unused /\ Cardinality(Creating) < Cardinality(Unused)
  /\ Becomes(w, [win[w] EXCEPT !.life = "open"])
  /\ Quiet /\ UNCHANGED <<opening, stray>>

(* iina.window-will-close.                                                  *)
CloseWindow(w) ==
  /\ Open(w)
  /\ ClosePending(w)
  /\ Becomes(w, [win[w] EXCEPT !.life = "closed", !.tracked = None, !.pendingId = None])
  /\ UNCHANGED <<opening, stray>>

(* The user clicks the menu item or leaves the dialog.  A bound: room is    *)
(* left for a task of the program, whose queue has none.                    *)
DialogStep ==
  /\ Len(queue) + 2 <= MaxQueue
  /\ MagnetClick \/ MagnetCancel
  /\ UNCHANGED <<opening, win, stray>>

-----------------------------------------------------------------------------
OpenStep(o)    == OpenFromDialog(o) \/ OpenFromMenu(o)
LaunchStep(o)  == Launched(o) \/ LaunchFails(o)
ResolveStep(o) == Resolved(o) \/ ResolveFails(o) \/ ResolvedInPlace(o) \/ FailsInPlace(o)
AttachStep(w)  == AttachStarts(w) \/ AttachFails(w)
UserStep(w)    == OpenWindow(w) \/ CloseWindow(w) \/ \E o \in Ops : OnLoad(w, o)

PlayerNext ==
  \/ RunHudTask \/ DialogStep
  \/ \E o \in Ops : OpenStep(o) \/ LaunchStep(o) \/ ResolveStep(o)
  \/ \E w \in Windows : AttachStep(w) \/ StartTracking(w) \/ FirstFrame(w) \/ UserStep(w)

PlayerSpec == PlayerInit /\ [][PlayerNext]_playerVars

(* Tasks run, requests are answered (addTorrent and the status retries have *)
(* a deadline), the poller ends; nobody has to open or to close anything.   *)
PlayerFairness ==
  /\ WF_playerVars(RunHudTask)
  /\ \A o \in Ops : WF_playerVars(LaunchStep(o)) /\ WF_playerVars(ResolveStep(o))
  /\ \A w \in Windows :
       WF_playerVars(AttachStep(w)) /\ WF_playerVars(StartTracking(w)) /\ WF_playerVars(FirstFrame(w))

FairPlayerSpec == PlayerSpec /\ PlayerFairness

-----------------------------------------------------------------------------
(* A window that closed tracks nothing, whatever was attaching: there is no *)
(* second window-will-close to stop its heartbeats (index.ts:74).           *)
ClosedTracksNothing == \A w \in Windows : win[w].life = "closed" => win[w].tracked = None

(* The HUD of an operation goes away, however the operation ends and in     *)
(* whatever order its window, its torrent and its tasks come and go, unless *)
(* nobody is left who knows it: its window was given another source, or     *)
(* closed before ts-attach, or the task that opens the window has thrown.   *)
HudEnds == \A o \in Ops : o \in active ~> o \notin active \/ o \in stray

(* A window ends up tracking the torrent it plays, and keeps to it, unless  *)
(* another source was loaded while one was resolving or attaching, or its   *)
(* attach gives up after the retries of the status: the operation has then  *)
(* left "resolved", and the file plays on untracked.                        *)
Plays(w, o) == Open(w) /\ win[w].plays = o /\ opening[o].at = "resolved"

TracksWhatPlays ==
  \A w \in Windows, o \in Ops :
    [](Plays(w, o) => <>[](win[w].tracked = o \/ ~Plays(w, o) \/ win[w].overlap))

(* While HUD and dialog keep out of each other's way, each is on the screen *)
(* when it should be.                                                       *)
ScreenRight == HudShown /\ DialogShown
=============================================================================
