---------------------------- MODULE ChessEncoder ----------------------------
(***************************************************************************)
(* The generator of keychain games, avikal_backend/chess_codec/encoder.py. *)
(* A number is written in a mixed radix: each move is a digit, the place of*)
(* the move among those that are still open at its position.  The mainline *)
(* takes digits first; what is left goes into variations, dealt a few at a *)
(* time to the positions of the mainline, round after round, then to the   *)
(* position at the end of each variation, and so on down.                  *)
(*                                                                         *)
(* A node of the game is its path, the moves that lead to it.  The search  *)
(* of the endpoints (a recursion in the code) is a stack of nodes.         *)
(***************************************************************************)
EXTENDS ChessBoard, Sequences

CONSTANTS Games,          \* what is asked: [num |-> a number, start |-> a position to begin with]
          MaxMainline,    \* MAX_MAINLINE_PLIES
          MaxVar,         \* MAX_VAR_PLIES
          PerRound        \* VARIATIONS_PER_ROUND

\* The code starts every game from the standard position, which is sound.
ASSUME GamesAssumption == \A g \in Games : g.num \in Nat \ {0} /\ Sound(g.start)
ASSUME LimitsAssumption == MaxMainline \in Nat \ {0} /\ MaxVar \in Nat \ {0} /\ PerRound \in Nat \ {0}

VARIABLES num,            \* the number asked for
          remaining,      \* what is left of it
          kids,           \* node.variations: the moves added at each node, in order
          boards, open,   \* the position at each node, its legal moves
          phase,          \* where the generator is
          cursor, plies,  \* the node a line is being grown at, and its length
          positions, at,  \* the nodes of this level, and the one being dealt to
          dealt,          \* variations it got in this round
          progress,       \* made_progress
          ends,           \* variation_endpoints of this level
          agenda,         \* endpoints of the levels above still to visit
          value, capacity \* history: the digits so far as a number, their weight

tree == <<kids, boards, open>>
level == <<positions, at, dealt, progress, ends, agenda>>
digits == <<remaining, value, capacity>>
vars == <<num, phase, cursor, plies, tree, level, digits>>

Phases == {"mainline", "round", "branch", "descend", "done", "failed"}
\* A function of nodes with one node more.
Only(p, v) == [q \in {p} |-> v]
With(f, p, v) == [q \in DOMAIN f \cup {p} |-> IF q = p THEN v ELSE f[q]]

Elements(seq) == {seq[i] : i \in DOMAIN seq}
Available(p) == open[p] \ Elements(kids[p])         \* available_moves at a node

Init ==
  /\ \E g \in Games : num = g.num /\ boards = Only(<<>>, g.start) /\ open = Only(<<>>, LegalMoves(g.start))
  /\ remaining = num /\ value = 0 /\ capacity = 1
  /\ kids = Only(<<>>, <<>>)
  /\ phase = "mainline" /\ cursor = <<>> /\ plies = 0
  /\ positions = <<>> /\ at = 1 /\ dealt = 0 /\ progress = FALSE /\ ends = <<>> /\ agenda = <<>>

-----------------------------------------------------------------------------
\* The digit a choice among k moves takes out of the remaining number.
Digit(k) == (remaining - 1) % k

\* mutant of Spend: digits from nought, as if no move were a digit too
SpendFromNought(k) ==
  /\ remaining' = remaining \div k
  /\ value' = value + (Digit(k) + 1) * capacity
  /\ capacity' = capacity * k

Spend(k) ==
  /\ remaining' = (remaining - 1) \div k
  /\ value' = value + (Digit(k) + 1) * capacity
  /\ capacity' = capacity * k

\* _add_encoded_move: the child is appended, the line grows at it.
Play(p, m) ==
  LET child == Append(p, m)
      after == Apply(boards[p], m) IN
  /\ kids' = With([kids EXCEPT ![p] = Append(@, m)], child, <<>>)
  /\ boards' = With(boards, child, after)
  /\ open' = With(open, child, LegalMoves(after))
  /\ cursor' = child

\* mutant of WritePly: the digit numbers all legal moves, open or not
WritePlyLegal(p, moves) ==
  /\ Spend(Cardinality(moves))
  /\ Play(p, Nth(open[p], Digit(Cardinality(moves))))

WritePly(p, moves) ==
  /\ Spend(Cardinality(moves))
  /\ Play(p, Nth(moves, Digit(Cardinality(moves))))

\* _encode_mainline.  Its nodes are what _collect_mainline_positions finds; one
\* with no choice needs no leaving out, the mainline took its only move.
CanExtend(limit) == remaining > 0 /\ plies < limit /\ open[cursor] # {}

MainPly ==
  /\ phase = "mainline" /\ CanExtend(MaxMainline)
  /\ WritePly(cursor, open[cursor]) /\ plies' = plies + 1
  /\ positions' = Append(positions, cursor)
  /\ UNCHANGED <<num, phase, at, dealt, progress, ends, agenda>>

Deal(nodes) == positions' = nodes /\ at' = 1 /\ dealt' = 0 /\ progress' = FALSE /\ ends' = <<>>

EndMainline ==
  /\ phase = "mainline" /\ ~CanExtend(MaxMainline)
  /\ IF remaining = 0 THEN phase' = "done" /\ UNCHANGED level
     ELSE phase' = "round" /\ Deal(positions) /\ UNCHANGED agenda
  /\ UNCHANGED <<num, cursor, plies, tree, digits>>

-----------------------------------------------------------------------------
\* _distribute_variations_recursive: one round over the positions of a level.
Here == positions[at]
TakesMore(p) == remaining > 0 /\ dealt < PerRound /\ Available(p) # {}

\* mutant of EndLevel: one round may be enough
EndLevelEarly ==
  /\ phase = "round" /\ at > Len(positions)
  /\ phase' = "descend" /\ agenda' = ends \o agenda
  /\ UNCHANGED <<num, cursor, plies, tree, positions, at, dealt, progress, ends, digits>>

AddVariation ==
  /\ phase = "round" /\ at <= Len(positions) /\ TakesMore(Here)
  /\ WritePly(Here, Available(Here))
  /\ phase' = "branch" /\ plies' = 1
  /\ dealt' = dealt + 1 /\ progress' = TRUE
  /\ UNCHANGED <<num, positions, at, ends, agenda>>

\* _encode_variation_branch_with_endpoint
BranchPly ==
  /\ phase = "branch" /\ CanExtend(MaxVar)
  /\ WritePly(cursor, open[cursor]) /\ plies' = plies + 1
  /\ UNCHANGED <<num, phase, level>>

EndBranch ==
  /\ phase = "branch" /\ ~CanExtend(MaxVar)
  /\ ends' = Append(ends, cursor) /\ phase' = "round"
  /\ UNCHANGED <<num, cursor, plies, tree, positions, at, dealt, progress, agenda, digits>>

NextPosition ==
  /\ phase = "round" /\ at <= Len(positions) /\ ~TakesMore(Here)
  /\ at' = at + 1 /\ dealt' = 0
  /\ UNCHANGED <<num, phase, cursor, plies, tree, positions, progress, ends, agenda, digits>>

NextRound ==
  /\ phase = "round" /\ at > Len(positions) /\ remaining > 0 /\ progress
  /\ at' = 1 /\ dealt' = 0 /\ progress' = FALSE
  /\ UNCHANGED <<num, phase, cursor, plies, tree, positions, ends, agenda, digits>>

\* The level is full: its endpoints are visited before those above it.
EndLevel ==
  /\ phase = "round" /\ at > Len(positions) /\ (remaining = 0 \/ ~progress)
  /\ phase' = "descend" /\ agenda' = ends \o agenda
  /\ UNCHANGED <<num, cursor, plies, tree, positions, at, dealt, progress, ends, digits>>

Descend ==
  /\ phase = "descend" /\ remaining > 0 /\ agenda # <<>>
  /\ Deal(IF open[Head(agenda)] = {} THEN <<>> ELSE <<Head(agenda)>>)
  /\ agenda' = Tail(agenda) /\ phase' = "round"
  /\ UNCHANGED <<num, cursor, plies, tree, digits>>

Finish ==
  /\ phase = "descend" /\ (remaining = 0 \/ agenda = <<>>)
  /\ phase' = IF remaining = 0 THEN "done" ELSE "failed"
  /\ UNCHANGED <<num, cursor, plies, tree, level, digits>>

Next ==
  \/ MainPly \/ EndMainline \/ AddVariation \/ BranchPly \/ EndBranch
  \/ NextPosition \/ NextRound \/ EndLevel \/ Descend \/ Finish

Spec == Init /\ [][Next]_vars

-----------------------------------------------------------------------------
\* The digits written so far and what is left always make up the number asked
\* for: no position, round or level writes a digit twice or drops one
\* (_encode_mainline, _distribute_variations_recursive).
Conserved == num = value + remaining * capacity

\* A digit that has been written can be read from the tree, then and ever after:
\* the place of the move among those that the earlier moves of its node leave
\* open, whatever is added to the game later (_add_encoded_move, and what
\* _decode_single_variation_with_endpoint relies on).
ReadAt(p, i) == DigitOf(open[p] \ {kids[p][j] : j \in 1..(i - 1)}, kids[p][i])
DigitWritten ==
  /\ \A p \in DOMAIN kids : \A i \in DOMAIN kids[p] : ReadAt(p, i)' = ReadAt(p, i)
  /\ remaining' # remaining =>
       \E p \in {p \in DOMAIN kids : kids'[p] # kids[p]} :
         LET d == ReadAt(p, Len(kids[p]))'
         IN d.index < d.base /\ remaining = remaining' * d.base + d.index + 1
DigitsReadBack == [][DigitWritten]_vars

\* The position a game has come to is one the rules of chess allow, and the
\* move generator may rely on it (board.py _update_castling_rights, _apply_move,
\* generate_legal_moves).
BoardSound == Sound(boards[cursor])

\* At the node where the game grows, each legal move's name (board.py san)
\* means that move and no other to the reader (parse_san).
NamesTellMovesApart ==
  LET b == boards[cursor] IN
  \A m \in open[cursor] : Meant(b, San(b, m, open[cursor]), open[cursor]) = {m}

\* The mainline: every move is the first of its node.  The encoder deals to
\* every node of it but its last, and to the ends of branches: nodes with no
\* line below them yet, or with sidelines.
Mainline == {p \in DOMAIN kids : \A i \in DOMAIN p : p[i] = Head(kids[SubSeq(p, 1, i - 1)])}
DealtTo(p) == IF p \in Mainline THEN kids[p] # <<>> ELSE Len(kids[p]) # 1

\* A number is refused only when no move is left at any node the encoder deals
\* to: the round robin and the visit of the endpoints skip none of them.
RefusedOnlyWhenFull ==
  phase = "failed" => \A p \in DOMAIN kids : DealtTo(p) => Available(p) = {}
=============================================================================
