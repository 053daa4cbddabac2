------------------------------- MODULE MCChess -------------------------------
(***************************************************************************)
(* Games for ChessDecoder.  The code starts from the standard position; the*)
(* others are positions its games come to, put first so that a few digits  *)
(* reach castling, captures at the corners, en passant, promotion, rivals  *)
(* for a name, and games with an end.                                      *)
(***************************************************************************)
EXTENDS ChessDecoder

Position(white, castling, men) ==
  [cells |-> [s \in Squares |-> IF s \in DOMAIN men THEN men[s] ELSE Empty],
   white |-> white, castling |-> castling, ep |-> NoSquare]

Back == <<"R", "N", "B", "Q", "K", "B", "N", "R">>
Standard ==
  Position(TRUE, {"K", "Q", "k", "q"},
    [s \in {s \in Squares : RankOf(s) \notin 2..5} |->
       CASE RankOf(s) = 0 -> Back[FileOf(s) + 1] [] RankOf(s) = 1 -> "P"
         [] RankOf(s) = 6 -> "p" [] RankOf(s) = 7 -> Man(FALSE, Back[FileOf(s) + 1])])

\* Kings and rooks at home, the files of the rooks open.
Castles ==
  Position(TRUE, {"K", "Q", "k", "q"},
    (0 :> "R") @@ (4 :> "K") @@ (7 :> "R") @@ (56 :> "r") @@ (60 :> "k") @@ (63 :> "r"))

\* Black may jump beside a white pawn; a white pawn may take a rook at home.
Pawns ==
  Position(FALSE, {"q"},
    (4 :> "K") @@ (36 :> "P") @@ (51 :> "p") @@ (49 :> "P") @@ (56 :> "r") @@ (60 :> "k") @@ (16 :> "p") @@ (8 :> "P"))

\* Queens on e4, h4 and h1 all reach e1.
Rivals ==
  Position(TRUE, {}, (28 :> "Q") @@ (31 :> "Q") @@ (7 :> "Q") @@ (16 :> "K") @@ (55 :> "k") @@ (47 :> "p") @@ (46 :> "p"))

\* Kings alone on the edge, and kings almost shut in: three to five moves a
\* position, so that a number goes through rounds, branches and descents.
Kings == Position(TRUE, {}, (4 :> "K") @@ (60 :> "k"))
Locked ==
  Position(TRUE, {}, (1 :> "K") @@ (8 :> "P") @@ (16 :> "p") @@ (62 :> "k") @@ (55 :> "p") @@ (47 :> "P"))

\* Every line from here soon ends in mate or stalemate.
DeadEnd ==
  Position(FALSE, {},
    (59 :> "b") @@ (60 :> "b") @@ (48 :> "b") @@ (50 :> "p") @@ (51 :> "k") @@ (41 :> "N") @@ (42 :> "p")
    @@ (43 :> "P") @@ (32 :> "p") @@ (34 :> "K") @@ (35 :> "N") @@ (37 :> "P") @@ (26 :> "P") @@ (27 :> "P"))

Short ==
  Position(FALSE, {},
    (61 :> "K") @@ (62 :> "B") @@ (63 :> "k") @@ (52 :> "P") @@ (54 :> "P") @@ (43 :> "n") @@ (45 :> "b")
    @@ (47 :> "b") @@ (36 :> "B") @@ (0 :> "q"))

\* The pawn on b7 gives check, each of the four answers is stalemate.
OneMove ==
  Position(TRUE, {}, (0 :> "k") @@ (49 :> "p") @@ (40 :> "K") @@ (41 :> "B") @@ (37 :> "Q") @@ (30 :> "P") @@ (31 :> "B") @@ (13 :> "Q"))

Asked(starts, nums) == [num : nums, start : starts]
SomeGames ==
  Asked({Standard, Castles, Pawns, Rivals}, 1..30 \cup {600, 4321, 98765, 1234567})
    \cup Asked({DeadEnd, Short, OneMove}, 1..30 \cup {100, 600, 4321})
    \cup Asked({Kings, Locked}, 1..30 \cup {98765, 1234567, 23456789, 198765432})
==============================================================================
