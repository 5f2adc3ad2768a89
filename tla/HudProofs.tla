----------------------------- MODULE HudProofs -----------------------------
(***************************************************************************)
(* Proofs about the HUD and the player windows: for any number of          *)
(* operations and windows and any length of the plugin queue, the HUD's    *)
(* bookkeeping agrees with itself, the windows keep to the HUD's protocol, *)
(* one that closed tracks nothing, and HUD and dialog are on the screen    *)
(* when they should be.                                                    *)
(***************************************************************************)
EXTENDS Player, TLAPS

(* Posting tasks keeps the queue a queue of tasks.                          *)
LEMMA EnqueueType ==
  ASSUME HudTypeOK, NEW tasks \in Seq(Task), Enqueue(tasks)
  PROVE  queue' \in Seq(Task)
BY DEF Enqueue, HudTypeOK

LEMMA RunTaskHead ==
  ASSUME HudTypeOK, RunTask
  PROVE  /\ Head(queue) \in Task
         /\ queue' \in Seq(Task)
BY DEF HudTypeOK, RunTask

(* What a task may be about.                                                *)
LEMMA TaskOp ==
  ASSUME NEW task \in Task, task.kind \in Kinds
  PROVE  task.op \in Ops
BY DEF Task, OpTask, Kinds

LEMMA TypeStep == HudTypeOK /\ [HudNext]_hudVars => HudTypeOK'
<1> SUFFICES ASSUME HudTypeOK, [HudNext]_hudVars PROVE HudTypeOK'
  OBVIOUS
<1>1. CASE RunTask
  <2> DEFINE task == Head(queue)
  <2>1. task \in Task /\ queue' \in Seq(Task)
    BY <1>1, RunTaskHead
  <2>2. CASE task.kind = "show" /\ ShowProgress(task.op)
    <3>1. task.op \in Ops
      BY <2>1, <2>2, TaskOp DEF Kinds
    <3> HIDE DEF task
    <3> QED
      BY <2>1, <2>2, <3>1 DEF HudTypeOK, ShowProgress, Mode
  <2>3. CASE task.kind = "hide" /\ HideProgress(task.op)
    <3>1. task.op \in Ops
      BY <2>1, <2>3, TaskOp DEF Kinds
    <3> HIDE DEF task
    <3> QED
      BY <2>1, <2>3, <3>1 DEF HudTypeOK, HideProgress, RemainingShown, Mode
  <2>4. CASE task.kind = "poll" /\ StartProgressPolling(task.op)
    <3>1. task.op \in Ops
      BY <2>1, <2>4, TaskOp DEF Kinds
    <3> HIDE DEF task
    <3> QED
      BY <2>1, <2>4, <3>1 DEF HudTypeOK, StartProgressPolling, Mode
  <2>5. CASE task.kind = "openDialog" /\ OpenDialog
    BY <2>1, <2>5 DEF HudTypeOK, OpenDialog, Mode
  <2>6. CASE task.kind = "closeDialog" /\ CloseDialog
    BY <2>1, <2>6 DEF HudTypeOK, CloseDialog, Mode
  <2>7. CASE task.kind = "create" /\ UNCHANGED <<hud, pending>>
    BY <2>1, <2>7 DEF HudTypeOK, hud
  <2> QED
    BY <1>1, <2>2, <2>3, <2>4, <2>5, <2>6, <2>7 DEF RunTask, Run
<1>2. CASE MagnetClick
  <2>1. <<[kind |-> "openDialog", op |-> None]>> \in Seq(Task)
    BY DEF Task
  <2> QED
    BY <1>2, <2>1, EnqueueType DEF MagnetClick, HudTypeOK, hud
<1>3. ASSUME NEW then \in Seq(Task), Finish(then) PROVE HudTypeOK'
  <2>1. <<[kind |-> "closeDialog", op |-> None]>> \o then \in Seq(Task)
    BY <1>3 DEF Task
  <2>2. queue' \in Seq(Task)
    BY <1>3, <2>1, EnqueueType DEF Finish
  <2> QED
    BY <1>3, <2>2 DEF Finish, HudTypeOK, hud
<1>4. CASE MagnetCancel
  <2>1. << >> \in Seq(Task)
    OBVIOUS
  <2> QED
    BY <1>3, <1>4, <2>1 DEF MagnetCancel
<1>5. ASSUME NEW op \in Ops, MagnetSubmit(op) PROVE HudTypeOK'
  <2>1. <<[kind |-> "show", op |-> op]>> \in Seq(Task)
    BY DEF Task, OpTask, Kinds
  <2> QED
    BY <1>3, <1>5, <2>1 DEF MagnetSubmit
<1>6. ASSUME NEW op \in Ops, NEW kind \in Kinds, Post(kind, op)
      PROVE  HudTypeOK'
  <2>1. <<[kind |-> kind, op |-> op]>> \in Seq(Task)
    BY <1>6 DEF Task, OpTask
  <2>2. queue' \in Seq(Task)
    BY <1>6, <2>1, EnqueueType DEF Post
  <2> QED
    BY <1>6, <2>2 DEF Post, HudTypeOK, hud
<1>7. CASE UNCHANGED hudVars
  BY <1>7 DEF hudVars, hud, HudTypeOK
<1> QED
  BY <1>1, <1>2, <1>4, <1>5, <1>6, <1>7 DEF HudNext

(* Every variable of the shared window keeps its type.                      *)
THEOREM HudTypeCorrect == HudSpec => []HudTypeOK
<1>1. HudInit => HudTypeOK
  <2>1. << >> \in Seq(Task)
    OBVIOUS
  <2> QED
    BY <2>1 DEF HudInit, HudTypeOK, Mode
<1> QED
  BY <1>1, TypeStep, PTL DEF HudSpec

-----------------------------------------------------------------------------
(* A task keeps the bookkeeping, whichever operation it is about.           *)
LEMMA RunKeeps ==
  ASSUME HudInv, HudTypeOK, NEW task \in Task, Run(task)
  PROVE  HudInv'
<1>1. CASE task.kind = "show" /\ ShowProgress(task.op)
  <2>1. task.op \in Ops
    BY <1>1, TaskOp DEF Kinds
  <2> QED
    BY <1>1, <2>1, HudAssumption DEF ShowProgress, HudInv
<1>2. CASE task.kind = "hide" /\ HideProgress(task.op)
  <2>1. polls' \subseteq active'
    BY <1>2 DEF HideProgress, HudInv
  <2>2. (visible' = None <=> active' = {}) /\ (visible' # None => visible' \in active')
    BY <1>2, HudAssumption DEF HideProgress, RemainingShown, HudInv, HudTypeOK
  <2>3. (progressOpen' <=> active' # {}) /\ (push' <=> progressOpen')
    BY <1>2 DEF HideProgress, HudInv
  <2> QED
    BY <2>1, <2>2, <2>3 DEF HudInv
<1>3. CASE task.kind = "poll" /\ StartProgressPolling(task.op)
  BY <1>3 DEF StartProgressPolling, HudInv
<1>4. CASE OpenDialog \/ CloseDialog
  BY <1>4 DEF OpenDialog, CloseDialog, HudInv
<1>5. CASE UNCHANGED hud
  BY <1>5 DEF hud, HudInv
<1> QED
  BY <1>1, <1>2, <1>3, <1>4, <1>5 DEF Run

LEMMA InvStep == HudInv /\ HudTypeOK /\ [HudNext]_hudVars => HudInv'
<1> SUFFICES ASSUME HudInv, HudTypeOK, [HudNext]_hudVars PROVE HudInv'
  OBVIOUS
<1>1. CASE RunTask
  BY <1>1, RunTaskHead, RunKeeps DEF RunTask
<1>2. CASE UNCHANGED hud
  BY <1>2 DEF hud, HudInv
<1>3. RunTask \/ UNCHANGED hud
  BY DEF HudNext, MagnetClick, MagnetCancel, MagnetSubmit, Finish, Post, hudVars
<1> QED
  BY <1>1, <1>2, <1>3

(* Whatever tasks come in whatever order, the window counts as open and the *)
(* push timer runs exactly while an operation is in flight, the operation   *)
(* rendered is one of them, and no status timer outlives its operation.     *)
THEOREM HudConsistent == HudSpec => []HudInv
<1>1. HudInit => HudInv
  BY DEF HudInit, HudInv
<1> QED
  BY <1>1, InvStep, HudTypeCorrect, PTL DEF HudSpec

-----------------------------------------------------------------------------
(* The player windows.  Every step of theirs is one of the HUD, or none.    *)
LEMMA BecomesType ==
  ASSUME win \in [Windows -> Window], NEW w, NEW r, Becomes(w, r), w \in Windows => r \in Window
  PROVE  win' \in [Windows -> Window]
BY DEF Becomes

(* Attaching a torrent changes nothing else of a window.                    *)
LEMMA AttachingType ==
  ASSUME NEW r \in Window, NEW o \in Ops
  PROVE  /\ Attaching(r, o) \in Window /\ Attached(r, o) \in Window
         /\ Attaching(r, o).life = r.life /\ Attaching(r, o).tracked = r.tracked
         /\ Attached(r, o).life = r.life /\ Attached(r, o).tracked = r.tracked
<1>1. ASSUME NEW p \in Window
      PROVE  Attaching(p, o) \in Window /\ Attaching(p, o).life = p.life
             /\ Attaching(p, o).tracked = p.tracked
  BY DEF Attaching, Window
<1> DEFINE q == [r EXCEPT !.pendingId = IF @ = None THEN o ELSE @]
<1>2. q \in Window /\ q.life = r.life /\ q.tracked = r.tracked
  BY DEF Window
<1>3. Attached(r, o) = Attaching(q, o)
  BY DEF Attached
<1> QED
  BY <1>1, <1>2, <1>3

LEMMA WindowFields ==
  ASSUME PlayerTypeOK, NEW w \in Windows
  PROVE  /\ win[w] \in Window /\ win[w].starts \in Seq(Ops)
         /\ {win[w].pendingId, win[w].attaching, win[w].tracked} \subseteq Ops \cup {None}
BY DEF PlayerTypeOK, Window

LEMMA OpeningType ==
  ASSUME PlayerTypeOK, PlayerNext, HudTypeOK
  PROVE  opening' \in [Ops -> Operation] /\ stray' \subseteq Ops
<1> USE DEF PlayerTypeOK, Operation, Stages, Advance
<1>1. CASE RunHudTask
  <2>1. Head(queue).kind = "create" => Head(queue).op \in Ops
    BY <1>1, RunTaskHead, TaskOp DEF RunHudTask, Kinds
  <2>2. ASSUME NEW o \in Ops, Create(o)
        PROVE  opening' \in [Ops -> Operation] /\ stray' \subseteq Ops
    <3>1. ASSUME NEW w \in Unused,
                 opening' = [opening EXCEPT ![o].at = "adding", ![o].home = w], UNCHANGED stray
          PROVE  opening' \in [Ops -> Operation] /\ stray' \subseteq Ops
      <4>1. opening' = [opening EXCEPT ![o] = [opening[o] EXCEPT !.at = "adding", !.home = w]]
        BY <3>1
      <4> QED
        BY <3>1, <4>1 DEF Unused
    <3>2. ASSUME Advance(o, "stuck"), stray' = stray \cup {o}
          PROVE  opening' \in [Ops -> Operation] /\ stray' \subseteq Ops
      BY <3>2
    <3> QED
      BY <2>2, <3>1, <3>2 DEF Create
  <2>3. CASE Head(queue).kind = "create"
    BY <1>1, <2>1, <2>2, <2>3 DEF RunHudTask
  <2> QED
    BY <1>1, <2>3 DEF RunHudTask
<1>2. CASE DialogStep
  BY <1>2 DEF DialogStep
<1>3. ASSUME NEW o \in Ops, OpenStep(o) \/ LaunchStep(o) \/ ResolveStep(o)
      PROVE  opening' \in [Ops -> Operation] /\ stray' \subseteq Ops
  BY <1>3 DEF OpenStep, OpenFromDialog, OpenFromMenu, LaunchStep, Launched, LaunchFails,
              ResolveStep, Resolved, ResolveFails, ResolvedInPlace, FailsInPlace
<1>4. ASSUME NEW w \in Windows, AttachStep(w) \/ StartTracking(w) \/ FirstFrame(w) \/ UserStep(w)
      PROVE  opening' \in [Ops -> Operation] /\ stray' \subseteq Ops
  <2>1. {win[w].pendingId, win[w].attaching} \subseteq Ops \cup {None}
    BY WindowFields
  <2>2. ASSUME NEW o \in Ops, OnLoad(w, o)
        PROVE  opening' \in [Ops -> Operation] /\ stray' \subseteq Ops
    BY <2>1, <2>2 DEF OnLoad
  <2> QED
    BY <1>4, <2>1, <2>2 DEF AttachStep, AttachStarts, AttachFails, StartTracking, FirstFrame,
                            UserStep, OpenWindow, CloseWindow
<1> QED
  BY <1>1, <1>2, <1>3, <1>4 DEF PlayerNext

LEMMA WindowsType ==
  ASSUME PlayerTypeOK, PlayerNext, HudTypeOK
  PROVE  win' \in [Windows -> Window]
<1>0. win \in [Windows -> Window]
  BY DEF PlayerTypeOK
<1>1. CASE UNCHANGED win
  BY <1>0, <1>1
<1>2. CASE RunHudTask
  <2> DEFINE o == Head(queue).op
  <2>1. Head(queue).kind = "create" => o \in Ops
    BY <1>2, RunTaskHead, TaskOp DEF RunHudTask, Kinds
  <2> HIDE DEF o
  <2>2. ASSUME NEW w \in Windows, o \in Ops, Becomes(w, [win[w] EXCEPT !.life = "open", !.plays = o])
        PROVE  win' \in [Windows -> Window]
    <3>1. [win[w] EXCEPT !.life = "open", !.plays = o] \in Window
      BY <2>2, WindowFields DEF Window
    <3> QED
      BY <1>0, <2>2, <3>1, BecomesType
  <2> QED
    BY <1>1, <1>2, <2>1, <2>2 DEF RunHudTask, Create, Unused, o
<1>3. ASSUME NEW o \in Ops, ResolveStep(o) PROVE win' \in [Windows -> Window]
  <2> DEFINE w == opening[o].home
  <2>1. w \in Windows => /\ Attached(win[w], o) \in Window /\ Attaching(win[w], o) \in Window
                         /\ [win[w] EXCEPT !.pendingId = None] \in Window
    <3> HIDE DEF w
    <3>1. ASSUME w \in Windows PROVE win[w] \in Window
      BY <3>1, WindowFields
    <3>2. ASSUME NEW r \in Window PROVE [r EXCEPT !.pendingId = None] \in Window
      BY DEF Window
    <3> QED
      BY <3>1, <3>2, AttachingType
  <2>2. \/ UNCHANGED win
        \/ Becomes(w, Attached(win[w], o)) \/ Becomes(w, Attaching(win[w], o))
        \/ Becomes(w, [win[w] EXCEPT !.pendingId = None])
    BY <1>3 DEF ResolveStep, Resolved, ResolveFails, ResolvedInPlace, FailsInPlace
  <2> HIDE DEF w
  <2> QED
    BY <1>0, <1>1, <2>1, <2>2, BecomesType
<1>4. ASSUME NEW w \in Windows, AttachStep(w) \/ StartTracking(w) \/ FirstFrame(w) \/ UserStep(w)
      PROVE  win' \in [Windows -> Window]
  <2> DEFINE r == win[w]
  <2>1. /\ r \in Window /\ r.starts \in Seq(Ops)
        /\ {r.pendingId, r.attaching, r.tracked} \subseteq Ops \cup {None}
    BY WindowFields
  <2>2. ASSUME NEW s \in Window, Becomes(w, s) PROVE win' \in [Windows -> Window]
    BY <1>0, <2>2, BecomesType
  <2>3. CASE AttachStarts(w)
    <3>1. r.attaching # None /\ Becomes(w, [r EXCEPT !.attaching = None,
                                                   !.starts = Append(r.starts, r.attaching)])
      BY <2>3 DEF AttachStarts
    <3> HIDE DEF r
    <3>2. Append(r.starts, r.attaching) \in Seq(Ops)
      BY <2>1, <3>1
    <3>3. [r EXCEPT !.attaching = None, !.starts = Append(r.starts, r.attaching)] \in Window
      BY <2>1, <3>2 DEF Window
    <3> QED
      BY <2>2, <3>1, <3>3
  <2>4. CASE AttachFails(w)
    <3>1. Becomes(w, [r EXCEPT !.attaching = None])
      BY <2>4 DEF AttachFails
    <3> HIDE DEF r
    <3>2. [r EXCEPT !.attaching = None] \in Window
      BY <2>1 DEF Window
    <3> QED
      BY <2>2, <3>1, <3>2
  <2>5. CASE StartTracking(w)
    <3> DEFINE t == IF Open(w) THEN Head(r.starts) ELSE r.tracked
    <3>1. r.starts # << >> /\ Becomes(w, [r EXCEPT !.starts = Tail(r.starts), !.tracked = t])
      BY <2>5 DEF StartTracking
    <3> HIDE DEF r
    <3>2. Tail(r.starts) \in Seq(Ops) /\ Head(r.starts) \in Ops
      BY <2>1, <3>1
    <3>3. t \in Ops \cup {None}
      BY <2>1, <3>2
    <3> HIDE DEF t
    <3>4. [r EXCEPT !.starts = Tail(r.starts), !.tracked = t] \in Window
      BY <2>1, <3>2, <3>3 DEF Window
    <3> QED
      BY <2>2, <3>1, <3>4
  <2>6. CASE FirstFrame(w)
    <3>1. Becomes(w, [r EXCEPT !.pendingId = None])
      BY <2>6 DEF FirstFrame
    <3> HIDE DEF r
    <3>2. [r EXCEPT !.pendingId = None] \in Window
      BY <2>1 DEF Window
    <3> QED
      BY <2>2, <3>1, <3>2
  <2>7. CASE OpenWindow(w) \/ CloseWindow(w)
    <3>1. \/ Becomes(w, [r EXCEPT !.life = "open"])
          \/ Becomes(w, [r EXCEPT !.life = "closed", !.tracked = None, !.pendingId = None])
      BY <2>7 DEF OpenWindow, CloseWindow
    <3> HIDE DEF r
    <3>2. /\ [r EXCEPT !.life = "open"] \in Window
          /\ [r EXCEPT !.life = "closed", !.tracked = None, !.pendingId = None] \in Window
      BY <2>1 DEF Window
    <3> QED
      BY <2>2, <3>1, <3>2
  <2>8. ASSUME NEW o \in Ops, OnLoad(w, o) PROVE win' \in [Windows -> Window]
    <3>1. Becomes(w, [r EXCEPT !.plays = o, !.pendingId = o, !.overlap = r.overlap \/ Busy(w)])
      BY <2>8 DEF OnLoad
    <3>2. Busy(w) \in BOOLEAN
      BY DEF Busy
    <3> HIDE DEF r
    <3>3. [r EXCEPT !.plays = o, !.pendingId = o, !.overlap = r.overlap \/ Busy(w)] \in Window
      BY <2>1, <3>2 DEF Window
    <3> QED
      BY <2>2, <3>1, <3>3
  <2> QED
    BY <1>4, <2>3, <2>4, <2>5, <2>6, <2>7, <2>8 DEF AttachStep, UserStep
<1> QED
  BY <1>1, <1>2, <1>3, <1>4 DEF PlayerNext, DialogStep, OpenStep, OpenFromDialog, OpenFromMenu,
     LaunchStep, Launched, LaunchFails

(* Each step posts one task, or runs one, or leaves the HUD alone.          *)
LEMMA PlayerStepsHud ==
  ASSUME PlayerTypeOK, PlayerNext
  PROVE  [HudNext]_hudVars
<1>1. ASSUME NEW kind \in Kinds, NEW o \in Ops, Post(kind, o) PROVE HudNext
  BY <1>1 DEF HudNext
<1>2. ASSUME NEW w, win[w].pendingId \in Ops \cup {None}, ClosePending(w)
      PROVE  [HudNext]_hudVars
  BY <1>1, <1>2 DEF ClosePending, Quiet, Kinds
<1>3. ASSUME NEW w \in Windows PROVE win[w].pendingId \in Ops \cup {None}
  BY DEF PlayerTypeOK, Window
<1>4. CASE RunHudTask \/ DialogStep
  BY <1>4 DEF RunHudTask, DialogStep, HudNext
<1>5. ASSUME NEW o \in Ops, OpenStep(o) \/ LaunchStep(o) PROVE HudNext
  <2>1. MagnetSubmit(o) => HudNext
    BY DEF HudNext
  <2> QED
    BY <1>1, <1>5, <2>1 DEF OpenStep, OpenFromDialog, OpenFromMenu, LaunchStep, Launched,
                            LaunchFails, Kinds
<1>6. ASSUME NEW o \in Ops, ResolveStep(o) PROVE [HudNext]_hudVars
  <2>1. CASE FailsInPlace(o)
    <3>1. CASE Quiet
      BY <3>1 DEF Quiet
    <3>2. CASE win[opening[o].home].pendingId = o /\ ClosePending(opening[o].home)
      BY <1>2, <3>2
    <3> QED
      BY <2>1, <3>1, <3>2 DEF FailsInPlace
  <2>2. CASE Resolved(o) \/ ResolveFails(o) \/ ResolvedInPlace(o)
    BY <1>1, <2>2 DEF Resolved, ResolveFails, ResolvedInPlace, Quiet, Kinds
  <2> QED
    BY <1>6, <2>1, <2>2 DEF ResolveStep
<1>7. ASSUME NEW w \in Windows, AttachStep(w) \/ StartTracking(w) \/ FirstFrame(w) \/ UserStep(w)
      PROVE  [HudNext]_hudVars
  <2>1. CASE AttachStep(w) \/ StartTracking(w) \/ OpenWindow(w)
    BY <2>1 DEF AttachStep, AttachStarts, AttachFails, StartTracking, OpenWindow, Quiet
  <2>2. CASE FirstFrame(w) \/ CloseWindow(w)
    BY <1>2, <1>3, <2>2 DEF FirstFrame, CloseWindow
  <2>3. ASSUME NEW o \in Ops, OnLoad(w, o) PROVE HudNext
    BY <1>1, <2>3 DEF OnLoad, Kinds
  <2> QED
    BY <1>7, <2>1, <2>2, <2>3 DEF UserStep
<1> QED
  BY <1>4, <1>5, <1>6, <1>7 DEF PlayerNext

LEMMA PlayerTypeStep == PlayerTypeOK /\ [PlayerNext]_playerVars => PlayerTypeOK'
<1>1. ASSUME PlayerTypeOK, PlayerNext PROVE PlayerTypeOK'
  <2>1. HudTypeOK'
    BY <1>1, PlayerStepsHud, TypeStep DEF PlayerTypeOK
  <2> QED
    BY <1>1, <2>1, OpeningType, WindowsType DEF PlayerTypeOK
<1>2. ASSUME PlayerTypeOK, UNCHANGED playerVars PROVE PlayerTypeOK'
  BY <1>2 DEF playerVars, hudVars, hud, PlayerTypeOK, HudTypeOK
<1> QED
  BY <1>1, <1>2

(* Every variable of the windows keeps its type.                            *)
THEOREM PlayerTypeCorrect == PlayerSpec => []PlayerTypeOK
<1>1. PlayerInit => PlayerTypeOK
  <2> SUFFICES ASSUME PlayerInit PROVE PlayerTypeOK
    OBVIOUS
  <2>1. << >> \in Seq(Task) /\ << >> \in Seq(Ops)
    OBVIOUS
  <2>2. HudTypeOK
    BY <2>1 DEF PlayerInit, HudInit, HudTypeOK, Mode
  <2>3. opening \in [Ops -> Operation]
    BY DEF PlayerInit, Operation, Stages
  <2>4. win \in [Windows -> Window]
    BY <2>1 DEF PlayerInit, Window
  <2> QED
    BY <2>2, <2>3, <2>4 DEF PlayerInit, PlayerTypeOK
<1> QED
  BY <1>1, PlayerTypeStep, PTL DEF PlayerSpec

(* The windows and resolveAndOpen only post tasks: what is proved of the    *)
(* HUD for tasks in any order carries over.                                 *)
LEMMA PlayerIsHud == PlayerSpec => HudSpec
<1>1. PlayerInit => HudInit
  BY DEF PlayerInit
<1>2. PlayerTypeOK /\ [PlayerNext]_playerVars => [HudNext]_hudVars
  BY PlayerStepsHud DEF playerVars
<1> QED
  BY <1>1, <1>2, PlayerTypeCorrect, PTL DEF PlayerSpec, HudSpec

(* So the open flag, the push timer, the visible operation and the status   *)
(* timers agree with the operations in flight, however many windows open,   *)
(* resolve, fail and close.                                                 *)
THEOREM PlayerHudConsistent == PlayerSpec => []HudInv
BY PlayerIsHud, HudConsistent

-----------------------------------------------------------------------------
(* attachTracking looks at windowClosed in the very task that starts the    *)
(* timers, and no later step reopens a window.                              *)
LEMMA ClosedStep ==
  PlayerTypeOK /\ ClosedTracksNothing /\ [PlayerNext]_playerVars => ClosedTracksNothing'
<1> SUFFICES ASSUME PlayerTypeOK, ClosedTracksNothing, [PlayerNext]_playerVars
             PROVE  ClosedTracksNothing'
  OBVIOUS
<1> DEFINE Fine(r) == r.life = "closed" => r.tracked = None
<1>0. win \in [Windows -> Window] /\ \A x \in Windows : win[x] \in Window /\ Fine(win[x])
  BY DEF ClosedTracksNothing, PlayerTypeOK
<1>1. CASE UNCHANGED win
  BY <1>1 DEF ClosedTracksNothing
<1>2. ASSUME NEW w, NEW r, Becomes(w, r), w \in Windows => Fine(r)
      PROVE  ClosedTracksNothing'
  <2>1. \A x \in Windows : win'[x] = IF x = w THEN r ELSE win[x]
    BY <1>0, <1>2 DEF Becomes
  <2> QED
    BY <1>0, <1>2, <2>1 DEF ClosedTracksNothing
<1> HIDE DEF Fine
<1>3. CASE RunHudTask
  <2>1. ASSUME NEW w \in Windows, NEW o, Becomes(w, [win[w] EXCEPT !.life = "open", !.plays = o])
        PROVE  ClosedTracksNothing'
    <3>1. Fine([win[w] EXCEPT !.life = "open", !.plays = o])
      BY <1>0 DEF Window, Fine
    <3> QED
      BY <1>2, <2>1, <3>1
  <2> QED
    BY <1>1, <1>3, <2>1 DEF RunHudTask, Create, Unused
<1>4. ASSUME NEW o \in Ops, ResolveStep(o) PROVE ClosedTracksNothing'
  <2> DEFINE w == opening[o].home
  <2>1. \/ UNCHANGED win
        \/ Becomes(w, Attached(win[w], o)) \/ Becomes(w, Attaching(win[w], o))
        \/ Becomes(w, [win[w] EXCEPT !.pendingId = None])
    BY <1>4 DEF ResolveStep, Resolved, ResolveFails, ResolvedInPlace, FailsInPlace
  <2> HIDE DEF w
  <2>2. w \in Windows => Fine(Attached(win[w], o)) /\ Fine(Attaching(win[w], o))
    BY <1>0, AttachingType DEF Fine
  <2>3. w \in Windows => Fine([win[w] EXCEPT !.pendingId = None])
    BY <1>0 DEF Window, Fine
  <2> QED
    BY <1>1, <1>2, <2>1, <2>2, <2>3
<1>5. ASSUME NEW w \in Windows, AttachStep(w) \/ StartTracking(w) \/ FirstFrame(w) \/ UserStep(w)
      PROVE  ClosedTracksNothing'
  <2> DEFINE r == win[w]
  <2>1. r \in Window /\ Fine(r)
    BY <1>0
  <2>2. ASSUME NEW s, Becomes(w, s), Fine(s) PROVE ClosedTracksNothing'
    BY <1>2, <2>2
  <2>3. CASE AttachStarts(w)
    <3>1. Becomes(w, [r EXCEPT !.attaching = None, !.starts = Append(r.starts, r.attaching)])
      BY <2>3 DEF AttachStarts
    <3> HIDE DEF r
    <3>2. Fine([r EXCEPT !.attaching = None, !.starts = Append(r.starts, r.attaching)])
      BY <2>1 DEF Window, Fine
    <3> QED
      BY <2>2, <3>1, <3>2
  <2>4. CASE AttachFails(w) \/ FirstFrame(w)
    <3>1. Becomes(w, [r EXCEPT !.attaching = None]) \/ Becomes(w, [r EXCEPT !.pendingId = None])
      BY <2>4 DEF AttachFails, FirstFrame
    <3> HIDE DEF r
    <3>2. Fine([r EXCEPT !.attaching = None]) /\ Fine([r EXCEPT !.pendingId = None])
      BY <2>1 DEF Window, Fine
    <3> QED
      BY <2>2, <3>1, <3>2
  <2>5. CASE StartTracking(w)
    <3> DEFINE t == IF r.life = "open" THEN Head(r.starts) ELSE r.tracked
    <3>1. Becomes(w, [r EXCEPT !.starts = Tail(r.starts), !.tracked = t])
      BY <2>5 DEF StartTracking, Open
    <3> HIDE DEF r
    <3>2. Fine([r EXCEPT !.starts = Tail(r.starts), !.tracked = t])
      BY <2>1 DEF Window, Fine
    <3> QED
      BY <2>2, <3>1, <3>2
  <2>6. CASE OpenWindow(w) \/ CloseWindow(w)
    <3>1. \/ Becomes(w, [r EXCEPT !.life = "open"])
          \/ Becomes(w, [r EXCEPT !.life = "closed", !.tracked = None, !.pendingId = None])
      BY <2>6 DEF OpenWindow, CloseWindow
    <3> HIDE DEF r
    <3>2. /\ Fine([r EXCEPT !.life = "open"])
          /\ Fine([r EXCEPT !.life = "closed", !.tracked = None, !.pendingId = None])
      BY <2>1 DEF Window, Fine
    <3> QED
      BY <2>2, <3>1, <3>2
  <2>7. ASSUME NEW o \in Ops, OnLoad(w, o) PROVE ClosedTracksNothing'
    <3>1. Becomes(w, [r EXCEPT !.plays = o, !.pendingId = o, !.overlap = r.overlap \/ Busy(w)])
      BY <2>7 DEF OnLoad
    <3> HIDE DEF r
    <3>2. Fine([r EXCEPT !.plays = o, !.pendingId = o, !.overlap = r.overlap \/ Busy(w)])
      BY <2>1 DEF Window, Fine
    <3> QED
      BY <2>2, <3>1, <3>2
  <2> QED
    BY <1>5, <2>3, <2>4, <2>5, <2>6, <2>7 DEF AttachStep, UserStep
<1> QED
  BY <1>1, <1>3, <1>4, <1>5 DEF PlayerNext, DialogStep, OpenStep, OpenFromDialog, OpenFromMenu,
     LaunchStep, Launched, LaunchFails, playerVars

(* A window that closed tracks nothing, for any number of windows and       *)
(* operations attaching, resolving and starting in any order.               *)
THEOREM WindowsEnd == PlayerSpec => []ClosedTracksNothing
<1>1. PlayerInit => ClosedTracksNothing
  BY DEF PlayerInit, ClosedTracksNothing
<1> QED
  BY <1>1, ClosedStep, PlayerTypeCorrect, PTL DEF PlayerSpec
-----------------------------------------------------------------------------
(* What shows while HUD and dialog keep out of each other's way.  A dialog  *)
(* closes only when one is open: by the time the task at i runs, one was    *)
(* opened, by the task at j or, if j is 0, before, and none closed since.   *)
DialogAt(i) ==
  \E j \in 0 .. i - 1 :
    /\ IF j = 0 THEN windowMode = "magnet-input" ELSE queue[j].kind = "openDialog"
    /\ \A k \in j + 1 .. i - 1 : queue[k].kind # "closeDialog"

DialogsInTurn == \A i \in DOMAIN queue : queue[i].kind = "closeDialog" => DialogAt(i)

(* The answer that somebody waits for can only close a dialog that opened.  *)
AnswerInTurn == pending => DialogAt(Len(queue) + 1)

ModeRight ==
  /\ progressOpen <=> windowMode = "progress"
  /\ shown <=> windowMode # "none"

SInv == ~shared => ModeRight /\ DialogsInTurn /\ AnswerInTurn

(* Tasks that are posted find the dialogs as the queue leaves them.         *)
LEMMA PostedLater ==
  ASSUME queue \in Seq(Task), NEW tasks \in Seq(Task), Enqueue(tasks),
         windowMode' = windowMode, NEW i \in 1 .. Len(queue) + 1
  PROVE  DialogAt(i)' <=> DialogAt(i)
<1>1. PICK n \in Nat : n = Len(queue)
  OBVIOUS
<1>2. i \in Nat \ {0} /\ i - 1 <= n
  BY <1>1
<1>3. \A k \in 1 .. n : queue'[k] = queue[k]
  BY <1>1 DEF Enqueue
<1>4. \A k \in 1 .. i - 1 : queue'[k] = queue[k]
  BY <1>1, <1>2, <1>3
<1>5. ASSUME NEW j \in 0 .. i - 1
      PROVE  (\A k \in j + 1 .. i - 1 : queue'[k].kind # "closeDialog")
               <=> (\A k \in j + 1 .. i - 1 : queue[k].kind # "closeDialog")
  <2>1. \A k \in j + 1 .. i - 1 : k \in 1 .. i - 1
    BY <1>2
  <2>2. \A k \in j + 1 .. i - 1 : queue'[k] = queue[k]
    BY <1>4, <2>1
  <2> QED
    BY <2>2
<1>6. \A j \in 0 .. i - 1 : j = 0 \/ j \in 1 .. i - 1
  BY <1>2
<1> QED
  BY <1>4, <1>5, <1>6 DEF DialogAt

LEMMA LastPosted ==
  ASSUME queue \in Seq(Task), NEW task \in Task, Enqueue(<<task>>)
  PROVE  /\ Len(queue') = Len(queue) + 1 /\ queue'[Len(queue) + 1] = task
         /\ \A k \in 1 .. Len(queue) : queue'[k] = queue[k]
BY DEF Enqueue

(* One task is posted: an opening one, or a closing one that has a dialog.  *)
LEMMA PostKeepsTurns ==
  ASSUME queue \in Seq(Task), DialogsInTurn, AnswerInTurn, windowMode' = windowMode,
         NEW task \in Task, Enqueue(<<task>>),
         task.kind = "closeDialog" => pending /\ ~pending',
         pending' => pending \/ task.kind = "openDialog"
  PROVE  DialogsInTurn' /\ AnswerInTurn'
<1>0. PICK n \in Nat : n = Len(queue)
  OBVIOUS
<1>1. DOMAIN queue = 1 .. n /\ DOMAIN queue' = 1 .. n + 1
  BY <1>0 DEF Enqueue
<1>2. Len(queue') = n + 1 /\ queue'[n + 1] = task /\ \A k \in 1 .. n : queue'[k] = queue[k]
  BY <1>0, LastPosted
<1>3. \A i \in 1 .. n + 1 : DialogAt(i)' <=> DialogAt(i)
  <2>1. <<task>> \in Seq(Task)
    OBVIOUS
  <2> QED
    BY <1>0, <2>1, PostedLater
<1>4. pending => DialogAt(n + 1)
  BY <1>0 DEF AnswerInTurn
<1>5. DialogsInTurn'
  BY <1>1, <1>2, <1>3, <1>4 DEF DialogsInTurn
<1>6. ASSUME pending' PROVE DialogAt(n + 2)'
  <2>1. CASE task.kind = "openDialog"
    <3>1. n + 1 \in 0 .. (n + 2) - 1 /\ n + 1 # 0 /\ (n + 1) + 1 .. (n + 2) - 1 = {}
      OBVIOUS
    <3>2. queue'[n + 1].kind = "openDialog"
      BY <1>2, <2>1
    <3> QED
      BY <3>1, <3>2 DEF DialogAt
  <2>2. CASE task.kind # "openDialog"
    <3>1. DialogAt(n + 1)'
      BY <1>3, <1>4, <1>6, <2>2
    <3>2. PICK j \in 0 .. (n + 1) - 1 :
            /\ IF j = 0 THEN windowMode' = "magnet-input" ELSE queue'[j].kind = "openDialog"
            /\ \A k \in j + 1 .. (n + 1) - 1 : queue'[k].kind # "closeDialog"
      BY <3>1 DEF DialogAt
    <3>3. queue'[n + 1].kind # "closeDialog"
      BY <1>2, <1>6
    <3>4. \A k \in j + 1 .. (n + 2) - 1 : k = n + 1 \/ k \in j + 1 .. (n + 1) - 1
      OBVIOUS
    <3>5. j \in 0 .. (n + 2) - 1 /\ \A k \in j + 1 .. (n + 2) - 1 : queue'[k].kind # "closeDialog"
      BY <3>2, <3>3, <3>4
    <3> QED
      BY <3>2, <3>5 DEF DialogAt
  <2> QED
    BY <2>1, <2>2
<1>7. AnswerInTurn'
  <2>1. (Len(queue) + 1)' = n + 2
    BY <1>2
  <2> QED
    BY <1>6, <2>1 DEF AnswerInTurn
<1> QED
  BY <1>5, <1>7

(* The first task runs: the others move up, and find what it leaves.        *)
LEMMA RunKeepsTurns ==
  ASSUME queue \in Seq(Task), DialogsInTurn, AnswerInTurn, UNCHANGED pending,
         queue # << >>, queue' = Tail(queue),
         Head(queue).kind = "openDialog" => windowMode' = "magnet-input",
         Head(queue).kind \notin {"openDialog", "closeDialog"} /\ windowMode = "magnet-input"
           => windowMode' = "magnet-input"
  PROVE  DialogsInTurn' /\ AnswerInTurn'
<1>0. PICK n \in Nat : n = Len(queue)
  OBVIOUS
<1>1. n # 0 /\ Len(queue') = n - 1 /\ DOMAIN queue = 1 .. n /\ DOMAIN queue' = 1 .. n - 1
      /\ queue[1] = Head(queue) /\ \A k \in 1 .. n - 1 : queue'[k] = queue[k + 1]
  BY <1>0
<1>2. ASSUME NEW i \in 1 .. n, DialogAt(i + 1) PROVE DialogAt(i)'
  <2>1. PICK j \in 0 .. (i + 1) - 1 :
          /\ IF j = 0 THEN windowMode = "magnet-input" ELSE queue[j].kind = "openDialog"
          /\ \A k \in j + 1 .. (i + 1) - 1 : queue[k].kind # "closeDialog"
    BY <1>2 DEF DialogAt
  <2>2. ASSUME NEW k \in j .. i - 1, k # 0 PROVE queue'[k].kind # "closeDialog"
    <3>1. k \in 1 .. n - 1 /\ k + 1 \in j + 1 .. (i + 1) - 1
      BY <2>2
    <3> QED
      BY <1>1, <2>1, <3>1
  <2>3. CASE j > 1
    <3>1. j - 1 \in 0 .. i - 1 /\ j - 1 # 0 /\ queue'[j - 1] = queue[j]
      BY <1>1, <2>3
    <3>2. ASSUME NEW k \in (j - 1) + 1 .. i - 1 PROVE queue'[k].kind # "closeDialog"
      <4>1. k \in j .. i - 1 /\ k # 0
        BY <2>3
      <4> QED
        BY <2>2, <4>1
    <3>3. queue'[j - 1].kind = "openDialog"
      <4>1. j # 0
        BY <2>3
      <4>2. queue[j].kind = "openDialog"
        BY <2>1, <4>1
      <4> QED
        BY <3>1, <4>2
    <3>4. \E m \in 0 .. i - 1 : /\ m # 0 /\ queue'[m].kind = "openDialog"
                                /\ \A k \in m + 1 .. i - 1 : queue'[k].kind # "closeDialog"
      BY <3>1, <3>2, <3>3
    <3> QED
      BY <3>4 DEF DialogAt
  <2>4. CASE j \in {0, 1}
    <3>1. windowMode' = "magnet-input"
      <4>1. CASE j = 1
        BY <1>1, <2>1, <4>1
      <4>2. CASE j = 0
        <5>1. queue[1].kind # "closeDialog"
          BY <1>1, <2>1, <4>2
        <5> QED
          BY <1>1, <2>1, <4>2, <5>1
      <4> QED
        BY <2>4, <4>1, <4>2
    <3>2. ASSUME NEW k \in 0 + 1 .. i - 1 PROVE queue'[k].kind # "closeDialog"
      <4>1. k \in j .. i - 1 /\ k # 0
        BY <2>4
      <4> QED
        BY <2>2, <4>1
    <3>3. 0 \in 0 .. i - 1
      OBVIOUS
    <3> QED
      BY <3>1, <3>2, <3>3 DEF DialogAt
  <2> QED
    BY <2>1, <2>3, <2>4
<1>3. DialogsInTurn'
  <2> SUFFICES ASSUME NEW i \in 1 .. n - 1, queue'[i].kind = "closeDialog" PROVE DialogAt(i)'
    BY <1>1 DEF DialogsInTurn
  <2>1. i + 1 \in 1 .. n /\ i \in 1 .. n /\ queue[i + 1].kind = "closeDialog"
    BY <1>1
  <2> QED
    BY <1>1, <1>2, <2>1 DEF DialogsInTurn
<1>4. AnswerInTurn'
  <2>1. pending => DialogAt(n + 1)
    BY <1>0 DEF AnswerInTurn
  <2>2. n \in 1 .. n
    BY <1>1
  <2>3. pending' => DialogAt(n)'
    BY <1>2, <2>1, <2>2
  <2>4. (Len(queue) + 1)' = n
    BY <1>1
  <2> QED
    BY <2>3, <2>4 DEF AnswerInTurn
<1> QED
  BY <1>3, <1>4

LEMMA ScreenStep == SInv /\ HudTypeOK /\ [HudNext]_hudVars => SInv'
<1> SUFFICES ASSUME SInv, HudTypeOK, [HudNext]_hudVars, ~shared' PROVE SInv'
  BY DEF SInv
<1>0. queue \in Seq(Task)
  BY DEF HudTypeOK
<1>1. CASE RunTask
  <2> DEFINE task == Head(queue)
  <2>1. task \in Task /\ queue # << >> /\ queue' = Tail(queue) /\ Run(task)
    BY <1>1, RunTaskHead DEF RunTask
  <2>2. queue[1] = task /\ 1 \in DOMAIN queue
    BY <1>0, <2>1
  <2> HIDE DEF task
  <2>0. shared \in BOOLEAN
    BY DEF HudTypeOK
  <2>3. ~shared /\ UNCHANGED pending
    BY <2>1, <2>0 DEF Run, ShowProgress, HideProgress, StartProgressPolling, OpenDialog, CloseDialog, hud
  <2>4. ModeRight /\ DialogsInTurn /\ AnswerInTurn
    BY <2>3 DEF SInv
  <2>5. task.kind = "closeDialog" => windowMode = "magnet-input"
    BY <2>2, <2>4 DEF DialogsInTurn, DialogAt
  <2>6. /\ ModeRight'
        /\ task.kind = "openDialog" => windowMode' = "magnet-input"
        /\ task.kind \notin {"openDialog", "closeDialog"} /\ windowMode = "magnet-input"
             => windowMode' = "magnet-input"
    <3>1. CASE task.kind = "show" /\ ShowProgress(task.op)
      BY <2>4, <3>1 DEF ShowProgress, ModeRight
    <3>2. CASE task.kind = "hide" /\ HideProgress(task.op)
      BY <2>4, <3>2 DEF HideProgress, ModeRight
    <3>3. CASE task.kind = "poll" /\ StartProgressPolling(task.op)
      BY <2>4, <3>3 DEF StartProgressPolling, ModeRight
    <3>4. CASE task.kind = "create" /\ UNCHANGED <<hud, pending>>
      BY <2>4, <3>4 DEF hud, ModeRight
    <3>5. CASE task.kind = "openDialog" /\ OpenDialog
      BY <2>4, <3>5 DEF OpenDialog, ModeRight
    <3>6. CASE task.kind = "closeDialog" /\ CloseDialog
      BY <2>4, <2>5, <3>6 DEF CloseDialog, ModeRight
    <3> QED
      BY <2>1, <3>1, <3>2, <3>3, <3>4, <3>5, <3>6 DEF Run
  <2>7. DialogsInTurn' /\ AnswerInTurn'
    BY <1>0, <2>1, <2>3, <2>4, <2>6, RunKeepsTurns DEF task
  <2> QED
    BY <2>6, <2>7 DEF SInv
<1>2. ASSUME UNCHANGED hud PROVE ModeRight /\ DialogsInTurn /\ AnswerInTurn /\ ModeRight'
  BY <1>2 DEF hud, SInv, ModeRight
<1>3. ASSUME UNCHANGED hud, NEW task \in Task, Enqueue(<<task>>),
             task.kind = "closeDialog" => pending /\ ~pending',
             pending' => pending \/ task.kind = "openDialog"
      PROVE  SInv'
  <2>1. windowMode' = windowMode
    BY <1>3 DEF hud
  <2>2. ModeRight /\ DialogsInTurn /\ AnswerInTurn /\ ModeRight'
    BY <1>2, <1>3
  <2>3. DialogsInTurn' /\ AnswerInTurn'
    BY <1>0, <1>3, <2>1, <2>2, PostKeepsTurns
  <2> QED
    BY <2>2, <2>3 DEF SInv
<1>4. CASE MagnetClick
  <2>1. [kind |-> "openDialog", op |-> None] \in Task
    BY DEF Task
  <2> QED
    BY <1>3, <1>4, <2>1 DEF MagnetClick
<1>5. CASE MagnetCancel
  <2>1. [kind |-> "closeDialog", op |-> None] \in Task
    BY DEF Task
  <2>2. Enqueue(<<[kind |-> "closeDialog", op |-> None]>>)
    BY <1>0, <1>5, <2>1 DEF MagnetCancel, Finish, Enqueue
  <2> QED
    BY <1>3, <1>5, <2>1, <2>2 DEF MagnetCancel, Finish
<1>6. ASSUME NEW op \in Ops, MagnetSubmit(op) PROVE SInv'
  <2> DEFINE close == [kind |-> "closeDialog", op |-> None]
             show  == [kind |-> "show", op |-> op]
  <2>1. close \in Task /\ show \in Task /\ close.kind = "closeDialog" /\ show.kind = "show"
    BY DEF Task, OpTask, Kinds
  <2>2. queue' = queue \o (<<close>> \o <<show>>) /\ pending /\ ~pending' /\ UNCHANGED hud
    BY <1>6 DEF MagnetSubmit, Finish, Enqueue
  <2> HIDE DEF close, show
  <2>3. <<close>> \o <<show>> \in Seq(Task) /\ Enqueue(<<close>> \o <<show>>)
    BY <1>6, <2>1 DEF MagnetSubmit, Finish, close, show
  <2>0. PICK n \in Nat : n = Len(queue)
    BY <1>0
  <2>4. /\ DOMAIN queue = 1 .. n /\ DOMAIN queue' = 1 .. n + 2
        /\ queue'[n + 1] = close /\ queue'[n + 2] = show
        /\ \A k \in 1 .. n : queue'[k] = queue[k]
    BY <1>0, <2>0, <2>1, <2>2
  <2>5. \A i \in 1 .. n + 1 : DialogAt(i)' <=> DialogAt(i)
    BY <1>0, <2>0, <2>2, <2>3, PostedLater DEF hud
  <2>6. ModeRight /\ DialogsInTurn /\ (pending => DialogAt(n + 1)) /\ ModeRight'
    BY <1>2, <2>0, <2>2 DEF AnswerInTurn
  <2>7. DialogsInTurn'
    BY <2>1, <2>2, <2>4, <2>5, <2>6 DEF DialogsInTurn
  <2> QED
    BY <2>2, <2>6, <2>7 DEF SInv, AnswerInTurn
<1>7. ASSUME NEW op \in Ops, NEW kind \in Kinds, Post(kind, op) PROVE SInv'
  <2>1. [kind |-> kind, op |-> op] \in Task /\ kind \notin {"openDialog", "closeDialog"}
    BY DEF Task, OpTask, Kinds
  <2> QED
    BY <1>3, <1>7, <2>1 DEF Post
<1>8. CASE UNCHANGED hudVars
  BY <1>8 DEF hudVars, hud, SInv, ModeRight, DialogsInTurn, AnswerInTurn, DialogAt
<1> QED
  BY <1>1, <1>4, <1>5, <1>6, <1>7, <1>8 DEF HudNext

(* What is in flight, and what somebody waits for, is on the screen.        *)
LEMMA ScreenFollows == SInv /\ HudInv /\ HudTypeOK => ScreenRight
<1> SUFFICES ASSUME SInv, HudInv, HudTypeOK, ~shared PROVE ScreenRight
  BY DEF ScreenRight, HudShown, DialogShown
<1>1. ModeRight /\ AnswerInTurn /\ queue \in Seq(Task)
  BY DEF SInv, HudTypeOK
<1>2. HudShown
  BY <1>1 DEF HudShown, ModeRight, HudInv
<1>3. ASSUME pending, ~Queued("openDialog", None) PROVE shown /\ windowMode = "magnet-input"
  <2>1. \A j \in 1 .. Len(queue) : queue[j].kind # "openDialog"
    <3> SUFFICES ASSUME NEW j \in 1 .. Len(queue), queue[j].kind = "openDialog" PROVE FALSE
      OBVIOUS
    <3>1. queue[j] \in Task
      BY <1>1
    <3>2. queue[j] = [kind |-> "openDialog", op |-> None]
      BY <3>1 DEF Task, OpTask, Kinds
    <3> QED
      BY <1>3, <3>2 DEF Queued, Contains
  <2>2. PICK j \in 0 .. (Len(queue) + 1) - 1 :
          IF j = 0 THEN windowMode = "magnet-input" ELSE queue[j].kind = "openDialog"
    BY <1>1, <1>3 DEF AnswerInTurn, DialogAt
  <2>3. Len(queue) \in Nat
    BY <1>1
  <2>4. windowMode = "magnet-input"
    BY <2>1, <2>2, <2>3
  <2> QED
    BY <1>1, <2>4 DEF ModeRight
<1> QED
  BY <1>2, <1>3 DEF ScreenRight, DialogShown

(* As long as HUD and dialog keep out of each other's way, an operation in  *)
(* flight is on the screen, and so is a dialog somebody waits for, once its *)
(* task has run: however long the queue and however often the dialog is     *)
(* asked for, answered and asked for again before the tasks get to run.     *)
THEOREM HudScreenRight == HudSpec => []ScreenRight
<1>1. HudInit => SInv
  BY DEF HudInit, SInv, ModeRight, DialogsInTurn, AnswerInTurn
<1> QED
  BY <1>1, ScreenStep, ScreenFollows, HudConsistent, HudTypeCorrect, PTL DEF HudSpec

(* And so it is with the windows, the menus and resolveAndOpen at work.     *)
THEOREM PlayerScreenRight == PlayerSpec => []ScreenRight
BY PlayerIsHud, HudScreenRight
=============================================================================
