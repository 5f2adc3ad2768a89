------------------------------ MODULE Selection ------------------------------
(***************************************************************************)
(* The decisions the daemon takes from a torrent's file list (engine.go):  *)
(* which file plays by default, which video follows one, and how much of a *)
(* file can be read from an offset without waiting.  A file list is a      *)
(* sequence of [video, length]; files lie one after the other in the       *)
(* torrent's data, which is cut into pieces of PieceLen bytes.  Indexes of *)
(* files and pieces start at 0, as in the code; NoFile is its -1.          *)
(***************************************************************************)
EXTENDS Integers, FiniteSets, Sequences

CONSTANT PieceLen      \* bytes in a piece

ASSUME PieceAssumption == PieceLen \in Nat \ {0}

NoFile == -1

FileList == Seq([video : BOOLEAN, length : Nat])

Indexes(files) == 0..(Len(files) - 1)
File(files, i) == files[i + 1]
Videos(files)  == {i \in Indexes(files) : File(files, i).video}

(* A loop of selectPrimaryIndex: a longest file among some, and the first   *)
(* of those.                                                                *)
Longest(files, among) ==
  LET best[k \in 0..Len(files)] ==
        IF k = 0 THEN [index |-> NoFile, length |-> -1]
        ELSE IF k - 1 \in among /\ files[k].length > best[k - 1].length
        THEN [index |-> k - 1, length |-> files[k].length]
        ELSE best[k - 1]
  IN best[Len(files)].index

SelectPrimaryLast(files) ==        \* mutant: the last video
  LET videos == Videos(files)
  IN IF videos = {} THEN NoFile ELSE CHOOSE i \in videos : \A j \in videos : j <= i

SelectPrimary(files) ==
  LET video == Longest(files, Videos(files))
  IN IF video # NoFile THEN video ELSE Longest(files, Indexes(files))

NextVideo(files, after) ==
  LET start == IF after + 1 < 0 THEN 0 ELSE after + 1
      scan[i \in 0..Len(files)] ==
        IF i = Len(files) THEN NoFile
        ELSE IF File(files, i).video THEN i ELSE scan[i + 1]
  IN IF start >= Len(files) THEN NoFile ELSE scan[start]

-----------------------------------------------------------------------------
(* The layout of the files in the torrent's data.                           *)
Offset(files, i) ==
  LET sum[k \in 0..Len(files)] == IF k = 0 THEN 0 ELSE sum[k - 1] + files[k].length
  IN sum[i]

NumPieces(files) == (Offset(files, Len(files)) + PieceLen - 1) \div PieceLen
Pieces(files)    == 0..(NumPieces(files) - 1)

(* The pieces that bytes from..to - 1 of a file lie in.                     *)
PiecesOf(files, i, from, to) ==
  {p \in Pieces(files) : /\ p * PieceLen < Offset(files, i) + to
                         /\ (p + 1) * PieceLen > Offset(files, i) + from}

AheadUnclipped(files, have, i, from) ==   \* mutant: counts to the end of the piece
  LET start == Offset(files, i) + from
      run[p \in 0..NumPieces(files)] ==
        IF p \in have THEN run[p + 1] ELSE p * PieceLen
      end == run[start \div PieceLen]
  IN IF end <= start THEN 0 ELSE end - start

(* contiguousBytesAheadCore.  complete walks the pieces from the one that   *)
(* holds the offset, up to the first that is missing or ends the file.      *)
Ahead(files, have, i, from) ==
  LET start   == Offset(files, i) + from
      fileEnd == Offset(files, i) + File(files, i).length
      walk[p \in 0..NumPieces(files)] ==
        IF p = NumPieces(files) \/ p \notin have THEN p * PieceLen
        ELSE IF (p + 1) * PieceLen >= fileEnd THEN (p + 1) * PieceLen
        ELSE walk[p + 1]
      reached == walk[start \div PieceLen]
      end     == IF reached > fileEnd THEN fileEnd ELSE reached
  IN IF ~(i \in Indexes(files) /\ from \in 0..(File(files, i).length - 1)) \/ end <= start
     THEN 0 ELSE end - start

-----------------------------------------------------------------------------
(* The primary file is a longest video, or a longest file where there is no *)
(* video, and the first of those; there is one unless the list is empty.    *)
PrimaryRight(files) ==
  LET among   == IF Videos(files) = {} THEN Indexes(files) ELSE Videos(files)
      longest == {i \in among : \A j \in among : File(files, j).length <= File(files, i).length}
  IN IF among = {} THEN SelectPrimary(files) = NoFile
     ELSE /\ SelectPrimary(files) \in longest
          /\ \A j \in longest : SelectPrimary(files) <= j

(* The next video is the nearest one behind the index, wherever that is.    *)
NextRight(files, after) ==
  LET later == {i \in Videos(files) : i > after}
  IN IF later = {} THEN NextVideo(files, after) = NoFile
     ELSE /\ NextVideo(files, after) \in later
          /\ \A j \in later : NextVideo(files, after) <= j

(* What lies ahead of an offset is as many bytes of the file as can be read *)
(* before one is met whose piece is missing.                                *)
AheadRightAt(files, have, i, from) ==
  LET byte(k) == (Offset(files, i) + k) \div PieceLen
      n == Ahead(files, have, i, from)
      left == File(files, i).length - from
  IN /\ n \in 0..left
     /\ \A k \in from..(from + n - 1) : byte(k) \in have
     /\ n = left \/ byte(from + n) \notin have
=============================================================================
