-------------------------------- MODULE Play --------------------------------
(***************************************************************************)
(* GET /play, the request mpv opens a torrent with: Engine.Play            *)
(* (torrentd/engine.go) adds the source and waits for its metadata, and    *)
(* handlePlay (torrentd/server.go) then lists the files.  Composed with    *)
(* the registry, whose other goroutines drop and rebind the torrent while  *)
(* the request waits: Play neither registers a reader nor touches the      *)
(* torrent.                                                                *)
(***************************************************************************)
EXTENDS Registry

VARIABLE play    \* the /play request whose Add each caller serves

playVars == <<vars, play>>

NoPlay  == [pc |-> "idle", ih |-> NoHash, m |-> 0, t |-> 0]
Playing == [pc: {"idle", "adding", "added", "waiting", "chosen"},
            ih: Hash \cup {NoHash}, m: 0..MaxTorrent, t: 0..MaxHandle]

PlayInit == Init /\ play = [c \in Caller |-> NoPlay]

In(c, pc) == play[c].pc = pc
Goes(c, r) == play' = [play EXCEPT ![c] = r]

(* Play calls Add, which is that of the registry, ...                       *)
PlayBind(c, ih, withInfo) ==
  /\ In(c, "idle")
  /\ AddBind(c, ih, withInfo)
  /\ Goes(c, [NoPlay EXCEPT !.pc = "adding", !.ih = ih])

PlayRegister(c) ==
  /\ In(c, "adding")
  /\ AddRegister(c)
  /\ Goes(c, [play[c] EXCEPT !.pc = "added", !.m = torrents'[play[c].ih]])

(* ... and loads the handle of the torrent that Add returned.               *)
PlayLoad(c) ==
  /\ In(c, "added")
  /\ Goes(c, [play[c] EXCEPT !.pc = "waiting", !.t = mt[play[c].ih][play[c].m].t])
  /\ UNCHANGED vars

(* The metadata is there: a file is chosen from that handle, or there is    *)
(* none to play.                                                            *)
PlayGotInfo(c) ==
  /\ In(c, "waiting") /\ play[c].t \in info[play[c].ih]
  /\ \/ Goes(c, [play[c] EXCEPT !.pc = "chosen"])
     \/ Goes(c, NoPlay)
  /\ UNCHANGED vars

(* metadataTimeout passes, or mpv closes the connection.                    *)
PlayHangs(c) ==          \* mutant: the wait is for the metadata alone
  /\ In(c, "waiting") /\ play[c].t \in info[play[c].ih]
  /\ Goes(c, NoPlay)
  /\ UNCHANGED vars

PlayTimeout(c) ==
  /\ In(c, "waiting")
  /\ Goes(c, NoPlay)
  /\ UNCHANGED vars

(* handlePlay lists the files of the handle the torrent has by now, and     *)
(* answers with a playlist or streams, which module Registry models.        *)
Listed(c) == mt[play[c].ih][play[c].m].t

PlayFiles(c) ==
  /\ In(c, "chosen")
  /\ Goes(c, NoPlay)
  /\ UNCHANGED vars

PlayStep(c) ==
  \/ \E ih \in Hash, withInfo \in BOOLEAN : PlayBind(c, ih, withInfo)
  \/ PlayRegister(c) \/ PlayLoad(c) \/ PlayGotInfo(c) \/ PlayTimeout(c) \/ PlayFiles(c)

(* Whatever else the registry does; an Add that Play called is Play's.      *)
RegistryStep ==
  /\ Next
  /\ UNCHANGED play
  /\ \A c \in Caller : In(c, "adding") => req'[c] = req[c]

PlayNext == RegistryStep \/ \E c \in Caller : PlayStep(c)

PlaySpec == PlayInit /\ [][PlayNext]_playVars

-----------------------------------------------------------------------------
(* What Registry's fairness says of Add holds of the Add of Play; a request *)
(* goes on, and its timeout comes.                                          *)
PlayFairness ==
  /\ Fairness
  /\ \A c \in Caller :
       /\ WF_playVars(PlayRegister(c)) /\ WF_playVars(PlayLoad(c))
       /\ WF_playVars(PlayTimeout(c)) /\ WF_playVars(PlayFiles(c))

FairPlaySpec == PlaySpec /\ PlayFairness

-----------------------------------------------------------------------------
(* A request that waits for metadata is answered, although the handle it    *)
(* loaded may be dropped or closed under it and then never gets any.        *)
PlayEnds == \A c \in Caller : In(c, "waiting") ~> In(c, "idle")

(* engine.go:1213: the file list is only asked of a handle whose metadata   *)
(* is known.                                                                *)
FilesKnown ==
  [][\A c \in Caller : In(c, "chosen") /\ ~In(c, "chosen")'
        => Listed(c) \in info[play[c].ih]]_playVars
=============================================================================
