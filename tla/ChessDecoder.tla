---------------------------- MODULE ChessDecoder ----------------------------
(***************************************************************************)
(* The way back of a keychain game: the game is written out as a sequence  *)
(* of moves and brackets (encoder.py _export_generated_pgn, pgn.py), read  *)
(* into a tree again (pgn.py read_game, board.py parse_san), and the tree  *)
(* is turned into the number it stands for (chess_codec/decoder.py).       *)
(* The definitions that follow ChessEncoder's game are recursive: only TLC *)
(* evaluates them.                                                         *)
(***************************************************************************)
EXTENDS ChessEncoder, SequencesExt

-----------------------------------------------------------------------------
\* What stands between brackets: the name of the first move, then its line.
Ply(p, m) == [kind |-> "ply", san |-> San(boards[p], m, open[p])]
Opens == [kind |-> "("]
Closes == [kind |-> ")"]

\* _write_cached_line: each move, then the sidelines that replace it.
RECURSIVE WriteLine(_)
WriteLine(p) ==
  IF kids[p] = <<>> THEN <<>>
  ELSE LET sideline(i) == <<Opens, Ply(p, kids[p][i])>> \o WriteLine(Append(p, kids[p][i])) \o <<Closes>>
       IN <<Ply(p, kids[p][1])>>
          \o FlattenSeq([i \in 1..(Len(kids[p]) - 1) |-> sideline(i + 1)])
          \o WriteLine(Append(p, kids[p][1]))

-----------------------------------------------------------------------------
\* read_game: the node the next move is added to, the nodes to come back to.
\* A name that does not stand for one legal move makes the game unreadable.
Parent(p) == SubSeq(p, 1, Len(p) - 1)

ReadPly(r, san) ==
  LET b == r.boards[r.node]
      meant == Meant(b, san, LegalMoves(b))
  IN IF Cardinality(meant) # 1 THEN [r EXCEPT !.ok = FALSE]
     ELSE LET m == CHOOSE m \in meant : TRUE
              child == Append(r.node, m)
          IN [r EXCEPT !.kids = With([@ EXCEPT ![r.node] = Append(@, m)], child, <<>>),
                       !.boards = With(@, child, Apply(b, m)), !.node = child]

\* mutant of ReadToken: after a sideline the reader stays where it was
ReadTokenNoReturn(r, t) ==
  CASE ~r.ok -> r
    [] r.ok /\ t.kind = "(" -> [r EXCEPT !.stack = Append(@, r.node), !.node = Parent(@)]
    [] r.ok /\ t.kind = ")" -> [r EXCEPT !.stack = Front(@)]
    [] r.ok /\ t.kind = "ply" -> ReadPly(r, t.san)

ReadToken(r, t) ==
  CASE ~r.ok -> r
    [] r.ok /\ t.kind = "(" -> IF r.node = <<>> THEN r
                               ELSE [r EXCEPT !.stack = Append(@, r.node), !.node = Parent(@)]
    [] r.ok /\ t.kind = ")" -> IF r.stack = <<>> THEN r
                               ELSE [r EXCEPT !.node = Last(r.stack), !.stack = Front(@)]
    [] r.ok /\ t.kind = "ply" -> ReadPly(r, t.san)

Read(tokens) ==
  FoldLeft(ReadToken,
           [ok |-> TRUE, node |-> <<>>, stack |-> <<>>, kids |-> Only(<<>>, <<>>), boards |-> Only(<<>>, boards[<<>>])],
           tokens)

-----------------------------------------------------------------------------
\* A line as a number and its weight: the first digit weighs least.
Horner(line) ==
  FoldRight(LAMBDA d, acc : [num |-> acc.num * d.base + d.index + 1, capacity |-> acc.capacity * d.base],
            line, [num |-> 0, capacity |-> 1])

\* The first-child line that starts at a node, of at most so many nodes.
RECURSIVE LineFrom(_, _, _)
LineFrom(g, p, limit) ==
  IF limit = 0 \/ g.kids[p] = <<>> THEN <<p>>
  ELSE <<p>> \o LineFrom(g, Append(p, Head(g.kids[p])), limit - 1)

LineDigits(g, line) ==
  [i \in 1..(Len(line) - 1) |-> DigitOf(LegalMoves(g.boards[line[i]]), Last(line[i + 1]))]

\* _decode_variation_branch_with_endpoint, below the branch's own digit.  The
\* first move of a branch counts against its limit.
\* _decode_single_variation_with_endpoint: the i-th sideline of a node is a
\* digit among the moves that were open when it was added.
Variation(g, p, i) ==
  LET m == g.kids[p][i]
      taken == {g.kids[p][j] : j \in 1..(i - 1)}
      line == LineFrom(g, Append(p, m), MaxVar - 1)
      below == Horner(LineDigits(g, line))
      own == DigitOf(LegalMoves(g.boards[p]) \ taken, m)
  IN [num |-> below.num * own.base + own.index + 1, capacity |-> below.capacity * own.base, end |-> Last(line)]

\* The sidelines of a level in the order they were dealt: PerRound from each
\* node in turn, until none is left.
RoundRobin(g, nodes, first) ==
  LET count(n) == Len(g.kids[nodes[n]]) - first + 1
      dealtIn(r, n) == SelectSeq([i \in 1..PerRound |-> <<nodes[n], (r - 1) * PerRound + i + first - 1>>],
                                 LAMBDA v : v[2] <= Len(g.kids[v[1]]))
      rounds == Max({0} \cup {(count(n) + PerRound - 1) \div PerRound : n \in DOMAIN nodes})
  IN FlattenSeq([r \in 1..rounds |-> FlattenSeq([n \in DOMAIN nodes |-> dealtIn(r, n)])])

\* _collect_variations_recursive: a level, then the levels under its endpoints.
RECURSIVE Collect(_, _, _)
Collect(g, nodes, first) ==
  LET order == RoundRobin(g, nodes, first)
      found == [k \in DOMAIN order |-> Variation(g, order[k][1], order[k][2])]
      below(v) == IF LegalMoves(g.boards[v.end]) = {} THEN <<>> ELSE Collect(g, <<v.end>>, 1)
  IN found \o FlattenSeq([k \in DOMAIN found |-> below(found[k])])

\* _decode_distributed_variations: the last one written weighs most.
Distributed(found) == FoldRight(LAMBDA v, acc : acc * v.capacity + v.num, found, 0)

\* decode_from_pgn; 0 stands for a game the decoder refuses.
Decode(g) ==
  LET main == LineFrom(g, <<>>, Cardinality(DOMAIN g.kids))
      head == Horner(LineDigits(g, main))
      chosen == SelectSeq(Front(main), LAMBDA p : Cardinality(LegalMoves(g.boards[p])) > 1)
  IN IF ~g.ok \/ g.kids[<<>>] = <<>> THEN 0
     ELSE head.num + Distributed(Collect(g, chosen, 2)) * head.capacity

-----------------------------------------------------------------------------
\* Every number that was encoded comes back when its game is read: the names
\* of moves are told apart, brackets bring the reader back to the right node,
\* and sidelines are taken in the order in which the encoder dealt them.
RoundTrip == phase = "done" => Decode(Read(WriteLine(<<>>))) = num
=============================================================================
