------------------------------ MODULE MCWarmers ------------------------------
EXTENDS Warmers

(* The torrent that is warmed: one piece holds both files, the second file  *)
(* is shorter than its tail, and of the first one byte may lie ahead.       *)
Played == << [video |-> TRUE, length |-> 2], [video |-> TRUE, length |-> 1] >>

(* The lists the decisions of Selection are checked on: up to three files   *)
(* that begin and end anywhere in a piece, are empty, or longer than one.   *)
Files(lengths) == [video : BOOLEAN, length : lengths]

MCLayouts ==
  {Played} \cup UNION {[1..n -> Files({0, 1, 4})] : n \in 1..2} \cup [1..3 -> Files({0, 4})]

(* Of the other torrents no step behind their file list is explored, and    *)
(* of a torrent that was dropped none behind Close.                         *)
MCPlayed == files \in {<<>>, Played} /\ ~(dropped /\ engine # "open")
=============================================================================
