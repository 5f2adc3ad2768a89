-------------------------------- MODULE Hud --------------------------------
(***************************************************************************)
(* The one standalone window of the global entry (src/global.ts), shared   *)
(* by the progress HUD and the magnet dialog.                              *)
(*                                                                         *)
(* Everything that touches the window runs as a task of the plugin queue   *)
(* (onPluginQueue), first in first out.  Operations are added and removed  *)
(* by whoever resolves a torrent, which module Player models.  Here tasks   *)
(* about operations are posted at any time.                                *)
(***************************************************************************)
EXTENDS Naturals, Sequences, SequencesExt

CONSTANTS
  Ops,         \* the operations, each opening one source
  None,        \* no operation
  MaxQueue     \* bound: tasks queued at a time

ASSUME HudAssumption == None \notin Ops /\ MaxQueue \in Nat

VARIABLES
  queue,         \* the plugin queue
  windowMode,    \* windowMode
  shown,         \* the standalone window is on the screen
  progressOpen,  \* progressOpen
  push,          \* progressPushTimer is running
  active,        \* activeSources: the operations
  polls,         \* activeSources: those whose pollTimer is running
  visible,       \* visibleProgressId
  pending,       \* pendingMagnetResolve is not null
  shared         \* history: HUD and dialog have been in each other's way

hud     == <<windowMode, shown, progressOpen, push, active, polls, visible, shared>>
hudVars == <<queue, hud, pending>>

Mode   == {"none", "progress", "magnet-input"}
Kinds  == {"show", "hide", "poll", "create"}
OpTask == [kind : Kinds, op : Ops]
Task   == OpTask \cup [kind : {"openDialog", "closeDialog"}, op : {None}]

HudTypeOK ==
  /\ queue \in Seq(Task)
  /\ windowMode \in Mode
  /\ {shown, progressOpen, push, pending, shared} \subseteq BOOLEAN
  /\ active \subseteq Ops /\ polls \subseteq Ops
  /\ visible \in Ops \cup {None}

HudInit ==
  /\ queue = <<>> /\ windowMode = "none" /\ shown = FALSE
  /\ progressOpen = FALSE /\ push = FALSE
  /\ active = {} /\ polls = {} /\ visible = None
  /\ pending = FALSE /\ shared = FALSE

(* onPluginQueue.                                                           *)
Enqueue(tasks) ==
  /\ Len(queue) + Len(tasks) <= MaxQueue
  /\ queue' = queue \o tasks

Queued(kind, op) == Contains(queue, [kind |-> kind, op |-> op])

-----------------------------------------------------------------------------
ShowProgress(op) ==
  /\ windowMode' = "progress"
  /\ shared' = (shared \/ windowMode = "magnet-input")
  /\ active' = active \cup {op}
  /\ visible' = op
  /\ shown' = (shown \/ ~progressOpen)
  /\ progressOpen' = TRUE
  /\ push' = TRUE
  /\ UNCHANGED <<polls, pending>>

(* Any operation that remains becomes visible: in the code, the oldest.     *)
RemainingShown(op) ==
  \/ visible # op /\ visible' = visible
  \/ visible = op /\ active' = {} /\ visible' = None
  \/ visible = op /\ visible' \in active'

HideKeepsVisible(op) ==        \* mutant: the visible operation is not replaced
  /\ active' = active \ {op}
  /\ polls' = polls \ {op}
  /\ IF active' = {} /\ progressOpen
     THEN shown' = FALSE /\ progressOpen' = FALSE /\ windowMode' = "none" /\ push' = FALSE
     ELSE UNCHANGED <<shown, progressOpen, windowMode, push>>
  /\ UNCHANGED <<pending, shared, visible>>

HideKeepsOpen(op) ==           \* mutant: progressOpen is not reset
  /\ active' = active \ {op}
  /\ polls' = polls \ {op}
  /\ RemainingShown(op)
  /\ IF active' = {} /\ progressOpen
     THEN shown' = FALSE /\ windowMode' = "none" /\ push' = FALSE /\ UNCHANGED progressOpen
     ELSE UNCHANGED <<shown, progressOpen, windowMode, push>>
  /\ UNCHANGED <<pending, shared>>

HideProgress(op) ==
  /\ active' = active \ {op}
  /\ polls' = polls \ {op}
  /\ RemainingShown(op)
  /\ IF active' = {} /\ progressOpen
     THEN shown' = FALSE /\ progressOpen' = FALSE /\ windowMode' = "none" /\ push' = FALSE
     ELSE UNCHANGED <<shown, progressOpen, windowMode, push>>
  /\ UNCHANGED <<pending, shared>>

StartProgressPolling(op) ==
  /\ polls' = IF op \in active THEN polls \cup {op} ELSE polls
  /\ UNCHANGED <<windowMode, shown, progressOpen, push, active, visible, shared, pending>>

OpenDialog ==
  /\ windowMode' = "magnet-input"
  /\ shared' = (shared \/ progressOpen)
  /\ shown' = TRUE
  /\ UNCHANGED <<progressOpen, push, active, polls, visible, pending>>

CloseDialog ==
  /\ windowMode' = "none"
  /\ shown' = FALSE
  /\ UNCHANGED <<progressOpen, push, active, polls, visible, pending, shared>>

Run(task) ==
  \/ task.kind = "show" /\ ShowProgress(task.op)
  \/ task.kind = "hide" /\ HideProgress(task.op)
  \/ task.kind = "poll" /\ StartProgressPolling(task.op)
  \/ task.kind = "create" /\ UNCHANGED <<hud, pending>>      \* createPlayerInstance
  \/ task.kind = "openDialog" /\ OpenDialog
  \/ task.kind = "closeDialog" /\ CloseDialog

RunTask ==
  /\ queue # <<>>
  /\ queue' = Tail(queue)
  /\ Run(Head(queue))

-----------------------------------------------------------------------------
(* showMagnetInputDialog.  A dialog that is pending is answered with null.  *)
MagnetClick ==
  /\ pending' = TRUE
  /\ Enqueue(<<[kind |-> "openDialog", op |-> None]>>)
  /\ UNCHANGED hud

(* finishMagnetDialog, from the dialog the user sees.  The second answer of *)
(* a dialog is ignored.                                                     *)
Finish(then) ==
  /\ shown /\ windowMode = "magnet-input"
  /\ pending /\ pending' = FALSE
  /\ Enqueue(<<[kind |-> "closeDialog", op |-> None]>> \o then)
  /\ UNCHANGED hud

MagnetCancel == Finish(<<>>)

MagnetSubmit(op) == Finish(<<[kind |-> "show", op |-> op]>>)

(* A message of a window, or a task of resolveAndOpen, about an operation.  *)
Post(kind, op) ==
  /\ Enqueue(<<[kind |-> kind, op |-> op]>>)
  /\ UNCHANGED <<hud, pending>>

HudNext ==
  \/ RunTask
  \/ MagnetClick \/ MagnetCancel
  \/ \E op \in Ops : MagnetSubmit(op) \/ \E kind \in Kinds : Post(kind, op)

HudSpec == HudInit /\ [][HudNext]_hudVars

-----------------------------------------------------------------------------
(* The bookkeeping of the HUD agrees with itself, whatever tasks come in    *)
(* whatever order: the window counts as open and the push timer runs exactly *)
(* while an operation is in flight, what is rendered is one of them, and no *)
(* status timer outlives its operation.                                     *)
HudInv ==
  /\ progressOpen <=> active # {}
  /\ push <=> progressOpen
  /\ visible = None <=> active = {}
  /\ visible # None => visible \in active
  /\ polls \subseteq active

(* While HUD and dialog have kept out of each other's way, an operation in  *)
(* flight is on the screen ...                                              *)
HudShown == ~shared /\ active # {} => shown /\ windowMode = "progress"

(* ... and so is a dialog that somebody waits for, once its task has run.   *)
DialogShown ==
  ~shared /\ pending /\ ~Queued("openDialog", None) => shown /\ windowMode = "magnet-input"

-----------------------------------------------------------------------------
(* global.ts:73: the window closes only when the last operation is gone.    *)
HudOnScreen == active # {} /\ queue = <<>> /\ ~pending => shown
=============================================================================
