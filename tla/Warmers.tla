------------------------------- MODULE Warmers -------------------------------
(***************************************************************************)
(* Background warming of one torrent (engine.go): Stream warms the tail of *)
(* the file it serves, WarmNext the tail and the head of the next video.   *)
(* A region is warmed by a worker goroutine with a reader of its own; the  *)
(* latch of the region (mt.warmed, mt.warmedHead) keeps a second one away. *)
(* A worker's context ends with a pause, with the torrent and with the     *)
(* engine.  A critical section of e.mu or of e.workerMu is one action.     *)
(***************************************************************************)
EXTENDS Selection

CONSTANTS
  Layouts,     \* the file lists a torrent may have
  MaxFiles,    \* their greatest length
  TailBytes,   \* tailWarmBytes
  HeadBytes,   \* headWarmBytes
  Threshold,   \* warmNextHealthThreshold
  Positions,   \* play positions a WarmNext may report, 0 for none
  Player,      \* goroutines in Stream, one at a time each
  Asker,       \* goroutines in WarmNext, one at a time each
  Worker,      \* goroutines in runWarmReader; bounds how many there are at once
  MaxContext   \* bounds the warm contexts, and with them the resumes

ASSUME WarmersAssumption ==
  /\ MaxFiles \in Nat /\ MaxContext \in Nat \ {0}
  /\ Layouts \subseteq FileList /\ \A list \in Layouts : Len(list) \in 1..MaxFiles
  /\ Positions \subseteq Nat
  /\ Player \cap Asker = {} /\ (Player \cup Asker) \cap Worker = {}

Caller == Player \cup Asker

VARIABLES
  files,       \* the torrent's file list, empty until the metadata is known
  have,        \* the pieces on disk
  dropped,     \* the engine has let go of the torrent
  engine,      \* open, closing (Close waits for the workers), or closed
  paused,      \* mt.paused
  context,     \* mt.warmCtx, numbered in the order they are made
  cancelled,   \* the contexts that have been cancelled
  latched,     \* the regions whose latch is set
  rq,          \* what each caller is doing
  wk,          \* what each worker is doing
  ahead        \* the look-ahead of each reader in mt.readers

torrentVars == <<files, have, dropped>>
pauseVars   == <<paused, context, cancelled>>
vars == <<files, have, dropped, engine, paused, context, cancelled, latched, rq, wk, ahead>>

Region   == [kind : {"head", "tail"}, file : 0..(MaxFiles - 1)]
NoRegion == [kind |-> "none", file |-> 0]
Reader   == Caller \cup Worker
Context  == 1..MaxContext

HeadOf(i) == [kind |-> "head", file |-> i]
TailOf(i) == [kind |-> "tail", file |-> i]

Away      == [pc |-> "idle", op |-> "none", after |-> NoFile, region |-> NoRegion, context |-> 0]
Streaming == [Away EXCEPT !.pc = "streaming"]
NoWork    == [pc |-> "free", region |-> NoRegion, context |-> 0]

Asking  == [pc : {"latch", "spawn", "unlatch", "gate"}, op : {"stream", "next"},
            after : NoFile..MaxFiles, region : Region, context : 0..MaxContext]
Request == {Away, Streaming} \cup Asking
Working == [pc : {"spawned", "reading", "ending"}, region : Region, context : 0..MaxContext]
Work    == {NoWork} \cup Working

TypeOK ==
  /\ files \in Layouts \cup {<<>>}
  /\ have \subseteq Pieces(files) /\ (files = <<>> => have = {})
  /\ dropped \in BOOLEAN
  /\ engine \in {"open", "closing", "closed"}
  /\ paused \in BOOLEAN
  /\ context \in Context /\ cancelled \subseteq Context
  /\ latched \subseteq Region
  /\ rq \in [Caller -> Request]
  /\ wk \in [Worker -> Work]
  /\ ahead \in [Reader -> {"none", "zero", "full"}]

Init ==
  /\ files = <<>> /\ have = {} /\ dropped = FALSE /\ engine = "open"
  /\ paused = FALSE /\ context = 1 /\ cancelled = {} /\ latched = {}
  /\ rq = [c \in Caller |-> Away] /\ wk = [w \in Worker |-> NoWork]
  /\ ahead = [r \in Reader |-> "none"]

-----------------------------------------------------------------------------
(* A region as bytes of its file.  A tail is TailBytes long whatever the    *)
(* length of the file, so the read of a shorter one ends in an EOF.         *)
Start(r)  == LET length == File(files, r.file).length
             IN IF r.kind = "tail" /\ length > TailBytes THEN length - TailBytes ELSE 0
Wanted(r) == LET length == File(files, r.file).length
             IN IF r.kind = "tail" THEN TailBytes ELSE IF length < HeadBytes THEN length ELSE HeadBytes
Fits(r)   == Start(r) + Wanted(r) <= File(files, r.file).length
Needed(r) == PiecesOf(files, r.file, Start(r), Start(r) + Wanted(r))

LiveUnowned(g) == g \notin cancelled     \* mutant: a context without the engine for a parent
Live(g) == g \notin cancelled /\ engine = "open"

FullAhead == "full"                        \* mutant: a pause is not asked for
NewAhead  == IF paused THEN "zero" ELSE "full"

Registered(r) == ahead[r] # "none"

-----------------------------------------------------------------------------
(* The torrent client, external: metadata and pieces arrive.                *)
MetadataArrives ==
  /\ files = <<>> /\ ~dropped /\ engine # "closed"
  /\ files' \in Layouts
  /\ UNCHANGED <<have, dropped, engine, pauseVars, latched, rq, wk, ahead>>

PieceArrives ==
  /\ files # <<>> /\ ~dropped /\ engine # "closed"
  /\ \E p \in Pieces(files) \ have : have' = have \cup {p}
  /\ UNCHANGED <<files, dropped, engine, pauseVars, latched, rq, wk, ahead>>

-----------------------------------------------------------------------------
(* Pause, Resume (and a re-open), the ways to drop a torrent, Close.  Pause *)
(* and Resume set the look-ahead of every registered reader.                *)
SetAhead(value) == [r \in Reader |-> IF Registered(r) THEN value ELSE "none"]

Pause ==
  /\ ~dropped
  /\ paused' = TRUE
  /\ cancelled' = cancelled \cup {context}
  /\ ahead' = SetAhead("zero")
  /\ UNCHANGED <<torrentVars, engine, context, latched, rq, wk>>

ResumeAlways ==                            \* mutant: a live context is replaced
  /\ ~dropped /\ context < MaxContext
  /\ paused' = FALSE
  /\ context' = context + 1
  /\ ahead' = SetAhead("full")
  /\ UNCHANGED <<torrentVars, engine, cancelled, latched, rq, wk>>

Resume ==
  /\ ~dropped /\ paused /\ context < MaxContext
  /\ paused' = FALSE
  /\ context' = context + 1
  /\ ahead' = SetAhead("full")
  /\ UNCHANGED <<torrentVars, engine, cancelled, latched, rq, wk>>

(* Remove and the garbage collector: the torrent leaves the map, its        *)
(* context is cancelled, its handle dropped.  In between Pause and Resume   *)
(* no longer find it and nothing else has changed, so it is one action.     *)
Drop ==
  /\ ~dropped
  /\ dropped' = TRUE
  /\ cancelled' = cancelled \cup {context}
  /\ UNCHANGED <<files, have, engine, paused, context, latched, rq, wk, ahead>>

Close ==
  /\ engine = "open"
  /\ engine' = "closing"
  /\ UNCHANGED <<torrentVars, pauseVars, latched, rq, wk, ahead>>

CloseClient ==                             \* wg.Wait has returned
  /\ engine = "closing" /\ \A w \in Worker : wk[w].pc = "free"
  /\ engine' = "closed"
  /\ UNCHANGED <<torrentVars, pauseVars, latched, rq, wk, ahead>>

-----------------------------------------------------------------------------
(* The callers.  A torrent that was looked up may have been dropped, and    *)
(* the engine closed, before the caller goes on.                            *)
Stream(c, i) ==
  /\ rq[c].pc = "idle" /\ i \in Indexes(files)
  /\ ahead' = [ahead EXCEPT ![c] = NewAhead]
  /\ rq' = [rq EXCEPT ![c] = [pc |-> "latch", op |-> "stream", after |-> NoFile,
                              region |-> TailOf(i), context |-> 0]]
  /\ UNCHANGED <<torrentVars, engine, pauseVars, latched, wk>>

(* WarmNext finds the next video; on a paused torrent it defers.            *)
WarmNext(c, after) ==
  LET next == NextVideo(files, after) IN
  /\ rq[c].pc = "idle" /\ next \in Indexes(files) /\ ~paused
  /\ rq' = [rq EXCEPT ![c] = [pc |-> "latch", op |-> "next", after |-> after,
                              region |-> TailOf(next), context |-> 0]]
  /\ UNCHANGED <<torrentVars, engine, pauseVars, latched, wk, ahead>>

(* What a caller does once warmRegionAsync has returned.                    *)
Returned(q) ==
  IF q.op = "stream" THEN Streaming
  ELSE IF q.region.kind = "tail" THEN [q EXCEPT !.pc = "gate", !.context = 0]
  ELSE Away

(* There are as many workers as there are goroutines in runWarmReader: a    *)
(* caller latches only when one is left for it, so that it never waits for  *)
(* a worker with the latch in its hand.                                     *)
WorkerLeft == Cardinality({c \in Caller : rq[c].pc = "spawn"}) < Cardinality({w \in Worker : wk[w].pc = "free"})

LatchBlind(c) ==                           \* mutant: a set latch is ignored
  /\ rq[c].pc = "latch"
  /\ IF paused
     THEN /\ rq' = [rq EXCEPT ![c] = Returned(@)]
          /\ UNCHANGED latched
     ELSE /\ WorkerLeft
          /\ rq' = [rq EXCEPT ![c].pc = "spawn", ![c].context = context]
          /\ latched' = latched \cup {rq[c].region}
  /\ UNCHANGED <<torrentVars, engine, pauseVars, wk, ahead>>

Latch(c) ==
  /\ rq[c].pc = "latch"
  /\ IF paused \/ rq[c].region \in latched
     THEN /\ rq' = [rq EXCEPT ![c] = Returned(@)]
          /\ UNCHANGED latched
     ELSE /\ WorkerLeft
          /\ rq' = [rq EXCEPT ![c].pc = "spawn", ![c].context = context]
          /\ latched' = latched \cup {rq[c].region}
  /\ UNCHANGED <<torrentVars, engine, pauseVars, wk, ahead>>

(* startWorker.                                                             *)
Spawn(c) ==
  /\ rq[c].pc = "spawn" /\ engine = "open"
  /\ \E w \in Worker :
       /\ wk[w].pc = "free"
       /\ wk' = [wk EXCEPT ![w] = [pc |-> "spawned", region |-> rq[c].region, context |-> rq[c].context]]
  /\ rq' = [rq EXCEPT ![c] = Returned(@)]
  /\ UNCHANGED <<torrentVars, engine, pauseVars, latched, ahead>>

Refuse(c) ==
  /\ rq[c].pc = "spawn" /\ engine # "open"
  /\ rq' = [rq EXCEPT ![c].pc = "unlatch", ![c].context = 0]
  /\ UNCHANGED <<torrentVars, engine, pauseVars, latched, wk, ahead>>

Unlatch(c) ==
  /\ rq[c].pc = "unlatch"
  /\ latched' = latched \ {rq[c].region}
  /\ rq' = [rq EXCEPT ![c] = Returned(@)]
  /\ UNCHANGED <<torrentVars, engine, pauseVars, wk, ahead>>

(* The head is warmed only if the player has enough to read on with.        *)
Thin(after, position) ==
  position > 0 /\ after \in Indexes(files) /\ Ahead(files, have, after, position) < Threshold

Gate(c, position) ==
  /\ rq[c].pc = "gate"
  /\ rq' = [rq EXCEPT ![c] = IF Thin(rq[c].after, position) THEN Away
                             ELSE [rq[c] EXCEPT !.pc = "latch", !.region = HeadOf(rq[c].region.file)]]
  /\ UNCHANGED <<torrentVars, engine, pauseVars, latched, wk, ahead>>

StreamEnd(c) ==
  /\ rq[c].pc = "streaming"
  /\ ahead' = [ahead EXCEPT ![c] = "none"]
  /\ rq' = [rq EXCEPT ![c] = Away]
  /\ UNCHANGED <<torrentVars, engine, pauseVars, latched, wk>>

-----------------------------------------------------------------------------
(* runWarmReader.                                                           *)
Register(w) ==
  /\ wk[w].pc = "spawned"
  /\ wk' = [wk EXCEPT ![w].pc = "reading"]
  /\ ahead' = [ahead EXCEPT ![w] = NewAhead]
  /\ UNCHANGED <<torrentVars, engine, pauseVars, latched, rq>>

ReadAll(w) ==
  /\ wk[w].pc = "reading"
  /\ Fits(wk[w].region) /\ Needed(wk[w].region) \subseteq have
  /\ wk' = [wk EXCEPT ![w].pc = "ending"]
  /\ UNCHANGED <<torrentVars, engine, pauseVars, latched, rq, ahead>>

ReadFailsLatched(w) ==                     \* mutant: the latch stays
  /\ wk[w].pc = "reading"
  /\ wk' = [wk EXCEPT ![w].pc = "ending"]
  /\ UNCHANGED <<torrentVars, engine, pauseVars, latched, rq, ahead>>

(* The seek or the read returns an error: an I/O error, the EOF of a short  *)
(* file, a closed client, a cancelled context.                              *)
ReadFails(w) ==
  /\ wk[w].pc = "reading"
  /\ latched' = latched \ {wk[w].region}
  /\ wk' = [wk EXCEPT ![w].pc = "ending"]
  /\ UNCHANGED <<torrentVars, engine, pauseVars, rq, ahead>>

UnregisterUnlatched(w) ==                  \* mutant: the latch goes with the reader
  /\ wk[w].pc = "ending"
  /\ latched' = latched \ {wk[w].region}
  /\ wk' = [wk EXCEPT ![w] = NoWork]
  /\ ahead' = [ahead EXCEPT ![w] = "none"]
  /\ UNCHANGED <<torrentVars, engine, pauseVars, rq>>

Unregister(w) ==
  /\ wk[w].pc = "ending"
  /\ wk' = [wk EXCEPT ![w] = NoWork]
  /\ ahead' = [ahead EXCEPT ![w] = "none"]
  /\ UNCHANGED <<torrentVars, engine, pauseVars, latched, rq>>

-----------------------------------------------------------------------------
Ask ==
  \/ \E c \in Player : \E i \in 0..(MaxFiles - 1) : Stream(c, i)
  \/ \E c \in Asker : \E after \in 0..(MaxFiles - 1) : WarmNext(c, after)

Answer(c) ==
  \/ Latch(c) \/ Spawn(c) \/ Refuse(c) \/ Unlatch(c)
  \/ \E position \in Positions : Gate(c, position)

Warm(w) == Register(w) \/ ReadAll(w) \/ ReadFails(w) \/ Unregister(w)

Control == Pause \/ Resume \/ Drop \/ Close \/ CloseClient

Arrival == MetadataArrives \/ PieceArrives

Next ==
  \/ Ask
  \/ \E c \in Caller : Answer(c) \/ StreamEnd(c)
  \/ \E w \in Worker : Warm(w)
  \/ Control
  \/ Arrival

Spec == Init /\ [][Next]_vars

(* A read returns once its context is cancelled or its data is there.       *)
Returns(w) ==
  /\ ~Live(wk[w].context) \/ Needed(wk[w].region) \subseteq have
  /\ ReadAll(w) \/ ReadFails(w)

(* Goroutines that can run do.  Nobody has to ask, pause or drop, and no    *)
(* piece has to arrive.                                                     *)
Fairness ==
  /\ \A c \in Caller : WF_vars(Answer(c))
  /\ \A w \in Worker : WF_vars(Register(w) \/ Returns(w) \/ Unregister(w))
  /\ WF_vars(CloseClient)

FairSpec == Spec /\ Fairness

-----------------------------------------------------------------------------
(* Who is responsible for a latched region: the caller that set the latch,  *)
(* until it has handed the region to a worker or taken the latch back, and  *)
(* then the worker, until it has read the region or given up.               *)
CallerOwns(c, r) == rq[c].pc \in {"spawn", "unlatch"} /\ rq[c].region = r
WorkerOwns(w, r) == wk[w].pc \in {"spawned", "reading"} /\ wk[w].region = r

Owned(r) == (\E c \in Caller : CallerOwns(c, r)) \/ (\E w \in Worker : WorkerOwns(w, r))

(* The critical sections of two callers and of a failing worker never leave *)
(* a region with two owners, or with an owner and no latch.                 *)
OwnedOnce ==
  /\ \A r \in Region : Owned(r) => r \in latched
  /\ \A r \in Region, c, d \in Caller : CallerOwns(c, r) /\ CallerOwns(d, r) => c = d
  /\ \A r \in Region, v, w \in Worker : WorkerOwns(v, r) /\ WorkerOwns(w, r) => v = w
  /\ \A r \in Region, c \in Caller, w \in Worker : ~(CallerOwns(c, r) /\ WorkerOwns(w, r))

(* A latch that nobody is responsible for any more is that of a region      *)
(* whose data is on disk: a failed or refused attempt always took it back.  *)
WarmMeansFetched ==
  \A r \in latched : ~Owned(r) => Fits(r) /\ Needed(r) \subseteq have

(* Regions are those of files there are.                                    *)
RegionsKnown ==
  /\ \A r \in latched : r.file \in Indexes(files)
  /\ \A c \in Caller : rq[c] \in Asking => rq[c].region.file \in Indexes(files)
  /\ \A w \in Worker : wk[w].pc # "free" => wk[w].region.file \in Indexes(files)

(* Each warm-up has one owner at a time, and a latch tells the truth about  *)
(* the region (warmRegionAsync and runWarmReader; "a one-shot background    *)
(* read").                                                                  *)
WarmInv == TypeOK /\ RegionsKnown /\ OwnedOnce /\ WarmMeansFetched

(* Background reads end with what they were started for: on a paused or     *)
(* dropped torrent, or under a closing engine, nobody holds a context that  *)
(* is not cancelled, not even a caller that latched a region before and has *)
(* yet to start its worker; and a closed engine has no workers.             *)
NoWarmerOutlives ==
  /\ paused \/ dropped =>
       /\ \A c \in Caller : rq[c].pc = "spawn" => ~Live(rq[c].context)
       /\ \A w \in Worker : wk[w].pc # "free" => ~Live(wk[w].context)
  /\ engine = "closed" => \A w \in Worker : wk[w].pc = "free"

(* What it rests on: only the last context made may be live, a paused or    *)
(* dropped torrent has none, and nobody holds a context yet to be made.     *)
ContextsEnd ==
  /\ \A g \in Context : g < context => g \in cancelled
  /\ paused \/ dropped => context \in cancelled
  /\ \A c \in Caller : rq[c].pc = "spawn" => rq[c].context \in 1..context
  /\ \A w \in Worker : wk[w].pc # "free" => wk[w].context \in 1..context
  /\ engine = "closed" => \A w \in Worker : wk[w].pc = "free"

(* Every reader in mt.readers has its look-ahead if the torrent plays and   *)
(* none if it is paused, whether it registered before the pause, during it  *)
(* or after it ("sets every live reader's look-ahead window to zero").      *)
ReadaheadFollowsPause == \A r \in Reader : Registered(r) => (ahead[r] = "zero" <=> paused)

(* selectPrimaryIndex and nextVideoIndex agree with their definitions by    *)
(* sets, wherever the search begins.                                        *)
SelectionRight ==
  /\ PrimaryRight(files)
  /\ \A after \in (NoFile - 1)..(MaxFiles + 1) : NextRight(files, after)

(* contiguousBytesAheadCore counts the bytes that can be read before one is *)
(* met whose piece is missing, at every offset and whatever is on disk.     *)
AheadRight ==
  \A pieces \in SUBSET Pieces(files) :
    \A i \in Indexes(files) : \A from \in 0..(File(files, i).length - 1) :
      AheadRightAt(files, pieces, i, from)

(* A torrent that stays paused ends up with no latch on a region that was   *)
(* not fetched, so that a request after the pause warms it (runWarmReader:  *)
(* "otherwise a transient seek failure leaves the region pinned as          *)
(* "warmed" forever").                                                      *)
LatchReleased ==
  paused ~> ~paused \/ \A r \in latched : Needed(r) \subseteq have

(* Close waits for the warmers and comes to an end.                         *)
CloseEnds == engine = "closing" ~> engine = "closed"

-----------------------------------------------------------------------------
(* Warmers implements Warmth: a region is being warmed from the moment it   *)
(* has a worker, and a latch that a caller holds before it has one, or has  *)
(* been refused one, does not count.                                        *)
Warming == {wk[w].region : w \in {w \in Worker : wk[w].pc \in {"spawned", "reading"}}}
Warmed  == {r \in latched : ~Owned(r)}

W == INSTANCE Warmth WITH warming <- Warming, warm <- Warmed, over <- engine = "closed"

(* To those who ask, a region is fetched by one worker at a time, and never *)
(* again once it is warm (warmRegionAsync: "a one-shot background read").   *)
WarmthSpec == W!WarmthSpec
=============================================================================
