----------------------------- MODULE ChessBoard -----------------------------
(***************************************************************************)
(* The rules of chess as avikal_backend/chess/board.py plays them, and the *)
(* names it gives to moves.  The keychain of an archive is a game: a number*)
(* is written by choosing, at each position, the n-th of its legal moves,  *)
(* so encoder and decoder must agree on every one of these definitions.    *)
(***************************************************************************)
EXTENDS Integers, FiniteSets

Squares == 0..63
FileOf(s) == s % 8
RankOf(s) == s \div 8
Sq(f, r) == 8 * r + f
Inside(f, r) == f \in 0..7 /\ r \in 0..7
Distance(m, n) == IF m < n THEN n - m ELSE m - n

\* White's pieces are capitals, as in board.py; TRUE is White.
Empty == "."
WhitePieces == {"P", "N", "B", "R", "Q", "K"}
BlackPieces == {"p", "n", "b", "r", "q", "k"}
Of(white) == IF white THEN WhitePieces ELSE BlackPieces
BlackOf == [P |-> "p", N |-> "n", B |-> "b", R |-> "r", Q |-> "q", K |-> "k"]
Man(white, role) == IF white THEN role ELSE BlackOf[role]
RoleOf == [piece \in WhitePieces \cup BlackPieces |->
             CHOOSE r \in WhitePieces : piece \in {r, BlackOf[r]}]
Role(piece) == RoleOf[piece]

NoSquare == 64
NoPromotion == "-"
Promotions == {"Q", "R", "B", "N"}
Moves == [from : Squares, to : Squares, promotion : Promotions \cup {NoPromotion}]
Board == [cells : [Squares -> WhitePieces \cup BlackPieces \cup {Empty}], white : BOOLEAN,
          castling : SUBSET {"K", "Q", "k", "q"}, ep : Squares \cup {NoSquare}]

KnightDeltas == {<<1, 2>>, <<2, 1>>, <<2, -1>>, <<1, -2>>, <<-1, -2>>, <<-2, -1>>, <<-2, 1>>, <<-1, 2>>}
RookRays == {<<1, 0>>, <<-1, 0>>, <<0, 1>>, <<0, -1>>}
BishopRays == {<<1, 1>>, <<1, -1>>, <<-1, 1>>, <<-1, -1>>}
KingDeltas == RookRays \cup BishopRays

\* King and rook of each castling right, and the squares between them.
Castlings == {
  [right |-> "K", king |-> "K", from |-> 4, to |-> 6, rook |-> "R", corner |-> 7, rookTo |-> 5,
   lane |-> {5, 6}, safe |-> {5, 6}],
  [right |-> "Q", king |-> "K", from |-> 4, to |-> 2, rook |-> "R", corner |-> 0, rookTo |-> 3,
   lane |-> {1, 2, 3}, safe |-> {2, 3}],
  [right |-> "k", king |-> "k", from |-> 60, to |-> 62, rook |-> "r", corner |-> 63, rookTo |-> 61,
   lane |-> {61, 62}, safe |-> {61, 62}],
  [right |-> "q", king |-> "k", from |-> 60, to |-> 58, rook |-> "r", corner |-> 56, rookTo |-> 59,
   lane |-> {57, 58, 59}, safe |-> {58, 59}]}

-----------------------------------------------------------------------------
\* Squares one delta away; the squares of a ray to the edge; those of them that
\* are reached, up to the first piece.
Beside(s, deltas) ==
  {Sq(FileOf(s) + d[1], RankOf(s) + d[2]) : d \in {d \in deltas : Inside(FileOf(s) + d[1], RankOf(s) + d[2])}}

Line == [s \in Squares |-> [d \in KingDeltas |->
  LET on(k) == Inside(FileOf(s) + k * d[1], RankOf(s) + k * d[2])
  IN [k \in {k \in 1..7 : on(k)} |-> Sq(FileOf(s) + k * d[1], RankOf(s) + k * d[2])]]]

Along(b, s, d) ==
  LET line == Line[s][d] IN
  {line[k] : k \in {k \in DOMAIN line : \A i \in 1..(k - 1) : b.cells[line[i]] = Empty}}

Rays(b, s, rays) == UNION {Along(b, s, d) : d \in rays}

\* is_attacked_by: seen from the target.
Attacked(b, white, s) ==
  LET from(deltas, role) == \E o \in Beside(s, deltas) : b.cells[o] = Man(white, role)
      ray(rays, role) == \E o \in Rays(b, s, rays) : b.cells[o] \in {Man(white, role), Man(white, "Q")}
      behind == IF white THEN -1 ELSE 1
  IN \/ from({<<-1, behind>>, <<1, behind>>}, "P")
     \/ from(KnightDeltas, "N")
     \/ ray(RookRays, "R") \/ ray(BishopRays, "B")
     \/ from(KingDeltas, "K")

InCheck(b, white) == \E s \in Squares : b.cells[s] = Man(white, "K") /\ Attacked(b, ~white, s)

-----------------------------------------------------------------------------
To(s, targets) == {[from |-> s, to |-> t, promotion |-> NoPromotion] : t \in targets}
Takes(b, t) == b.cells[t] \in Of(~b.white)
Free(b, targets) == {t \in targets : b.cells[t] \notin Of(b.white)}

PawnMoves(b, s) ==
  LET step == IF b.white THEN 8 ELSE -8
      home == IF b.white THEN 1 ELSE 6
      push == {t \in {s + step} : t \in Squares /\ b.cells[t] = Empty}
      jump == {t \in {s + 2 * step} : RankOf(s) = home /\ push # {} /\ b.cells[t] = Empty}
      captures == {t \in Beside(s, {<<-1, step \div 8>>, <<1, step \div 8>>}) : Takes(b, t) \/ t = b.ep}
      last == IF b.white THEN 7 ELSE 0
  IN UNION {IF RankOf(t) = last
            THEN {[from |-> s, to |-> t, promotion |-> p] : p \in Promotions}
            ELSE To(s, {t}) : t \in push \cup jump \cup captures}

CastleMoves(b, s) ==
  {[from |-> s, to |-> c.to, promotion |-> NoPromotion] : c \in
    {c \in Castlings :
      /\ b.cells[s] = c.king /\ s = c.from /\ c.right \in b.castling /\ b.cells[c.corner] = c.rook
      /\ ~InCheck(b, b.white)
      /\ \A t \in c.lane : b.cells[t] = Empty
      /\ \A t \in c.safe : ~Attacked(b, ~b.white, t)}}

MovesFrom(b, s) ==
  LET role == Role(b.cells[s]) IN
  CASE role = "P" -> PawnMoves(b, s)
    [] role = "N" -> To(s, Free(b, Beside(s, KnightDeltas)))
    [] role = "B" -> To(s, Free(b, Rays(b, s, BishopRays)))
    [] role = "R" -> To(s, Free(b, Rays(b, s, RookRays)))
    [] role = "Q" -> To(s, Free(b, Rays(b, s, KingDeltas)))
    [] role = "K" -> To(s, Free(b, Beside(s, KingDeltas))) \cup CastleMoves(b, s)

PseudoLegal(b) == UNION {MovesFrom(b, s) : s \in {s \in Squares : b.cells[s] \in Of(b.white)}}

-----------------------------------------------------------------------------
\* mutant of RightsAfter: a rook that is captured at home keeps the right
RightsAfterMover(b, m) ==
  {r \in b.castling : \A c \in Castlings : c.right = r => b.cells[m.from] # c.king /\ m.from # c.corner}

\* A right is lost when its king moves or its corner is left or taken.
RightsAfter(b, m) ==
  {r \in b.castling : \A c \in Castlings :
     c.right = r => b.cells[m.from] # c.king /\ c.corner \notin {m.from, m.to}}

\* The pawn that a capture en passant removes is not where the mover arrives.
Victim(b, m) ==
  IF Role(b.cells[m.from]) = "P" /\ m.to = b.ep /\ b.cells[m.to] = Empty
  THEN {IF b.white THEN m.to - 8 ELSE m.to + 8} ELSE {}

Castled(b, m) ==
  IF Role(b.cells[m.from]) = "K" /\ Distance(FileOf(m.from), FileOf(m.to)) = 2
  THEN {c \in Castlings : c.to = m.to} ELSE {}

Apply(b, m) ==
  LET piece == b.cells[m.from]
      placed == IF m.promotion = NoPromotion THEN piece ELSE Man(b.white, m.promotion)
      moved == [b.cells EXCEPT ![m.from] = Empty, ![m.to] = placed]
      gone == Victim(b, m) \cup {c.corner : c \in Castled(b, m)}
      rooks == {c.rookTo : c \in Castled(b, m)}
      jumped == Role(piece) = "P" /\ Distance(RankOf(m.from), RankOf(m.to)) = 2
  IN [cells |-> IF gone = {} THEN moved
                ELSE [s \in Squares |-> IF s \in gone THEN Empty
                                        ELSE IF s \in rooks THEN Man(b.white, "R") ELSE moved[s]],
      white |-> ~b.white,
      castling |-> RightsAfter(b, m),
      ep |-> IF jumped THEN (m.from + m.to) \div 2 ELSE NoSquare]

LegalMoves(b) == {m \in PseudoLegal(b) : ~InCheck(Apply(b, m), b.white)}

\* Moves are numbered in the order of their UCI names: a2a3 before a2a4 before
\* b1a3, a promotion to a bishop before one to a knight, a queen, a rook.
Letter == [B |-> 1, N |-> 2, Q |-> 3, R |-> 4]
UciKey(m) ==
  LET square(s) == 8 * FileOf(s) + RankOf(s)
      letter == IF m.promotion = NoPromotion THEN 0 ELSE Letter[m.promotion]
  IN 5 * (64 * square(m.from) + square(m.to)) + letter

IndexIn(moves, m) == Cardinality({n \in moves : UciKey(n) < UciKey(m)})
Nth(moves, i) == CHOOSE m \in moves : IndexIn(moves, m) = i

\* What the decoder makes of a move: its place among those that were open.
DigitOf(moves, m) == [index |-> IndexIn(moves, m), base |-> Cardinality(moves)]

-----------------------------------------------------------------------------
IsCapture(b, m) ==
  \/ b.cells[m.to] # Empty
  \/ Role(b.cells[m.from]) = "P" /\ m.to = b.ep /\ FileOf(m.from) # FileOf(m.to)

\* mutant of Disambiguation: the file, whatever the rivals are
DisambiguationByFile(b, m, legal) ==
  LET rivals == {r \in legal \ {m} : r.to = m.to /\ b.cells[r.from] = b.cells[m.from]}
  IN IF rivals = {} THEN {} ELSE {"file"}

\* Which coordinates of its origin tell a move from those of its rivals.
Disambiguation(b, m, legal) ==
  LET rivals == {r \in legal \ {m} : r.to = m.to /\ b.cells[r.from] = b.cells[m.from]}
      sameFile == \E r \in rivals : FileOf(r.from) = FileOf(m.from)
      sameRank == \E r \in rivals : RankOf(r.from) = RankOf(m.from)
  IN IF rivals = {} THEN {}
     ELSE IF sameFile /\ sameRank THEN {"file", "rank"}
     ELSE IF sameFile THEN {"rank"} ELSE {"file"}

\* The name of a move: castling, or the piece, what is shown of its origin,
\* whether it captures, its target and its promotion.  Signs of check are left
\* out, which the reader strips.
San(b, m, legal) ==
  LET role == Role(b.cells[m.from])
      shown == IF role = "P" THEN (IF IsCapture(b, m) THEN {"file"} ELSE {}) ELSE Disambiguation(b, m, legal)
  IN [castle |-> IF Castled(b, m) = {} THEN "no" ELSE IF FileOf(m.to) > FileOf(m.from) THEN "O-O" ELSE "O-O-O",
      role |-> role, capture |-> IsCapture(b, m), to |-> m.to, promotion |-> m.promotion,
      file |-> IF "file" \in shown THEN {FileOf(m.from)} ELSE {},
      rank |-> IF "rank" \in shown THEN {RankOf(m.from)} ELSE {}]

\* parse_san: the legal moves a name may mean; it must be one.
Meant(b, san, legal) ==
  IF san.castle # "no"
  THEN {m \in legal :
          /\ m.to = (IF san.castle = "O-O" THEN 6 ELSE 2) + (IF b.white THEN 0 ELSE 56)
          /\ Role(b.cells[m.from]) = "K" /\ Distance(FileOf(m.from), FileOf(m.to)) = 2}
  ELSE {m \in legal :
          /\ Role(b.cells[m.from]) = san.role /\ m.to = san.to /\ m.promotion = san.promotion
          /\ san.file \subseteq {FileOf(m.from)} /\ san.rank \subseteq {RankOf(m.from)}
          /\ san.capture => IsCapture(b, m)
          /\ ~san.capture /\ san.role # "P" => ~IsCapture(b, m)}

-----------------------------------------------------------------------------
\* What the rules of chess promise of a position to the move generator: one
\* king each, the side that has just moved not in check, no pawn on an edge
\* rank, a castling right only with king and rook at home, an en passant
\* square behind a pawn that has just jumped.
Sound(b) ==
  LET behind == IF b.white THEN b.ep - 8 ELSE b.ep + 8
  IN /\ b \in Board
     /\ \A king \in {"K", "k"} : \E s \in Squares : {t \in Squares : b.cells[t] = king} = {s}
     /\ ~InCheck(b, ~b.white)
     /\ \A s \in Squares : b.cells[s] \in {"P", "p"} => RankOf(s) \in 1..6
     /\ \A c \in Castlings : c.right \in b.castling => b.cells[c.from] = c.king /\ b.cells[c.corner] = c.rook
     /\ b.ep # NoSquare => behind \in Squares /\ b.cells[b.ep] = Empty /\ b.cells[behind] = Man(~b.white, "P")
=============================================================================
