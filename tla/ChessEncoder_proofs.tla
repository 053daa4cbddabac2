------------------------ MODULE ChessEncoder_proofs ------------------------
(***************************************************************************)
(* For any numbers, sound starting positions and limits: the generator     *)
(* never loses or repeats a part of the number it writes, the positions it *)
(* comes to are sound, the name of a move means that move only, a digit is *)
(* read back as it was written, and a number is refused only by a game     *)
(* that is full.                                                           *)
(***************************************************************************)
EXTENDS ChessEncoder, FiniteSetTheorems, SequenceTheorems, TLAPS

-----------------------------------------------------------------------------
\* A move leads from a square of the board to a square of the board, whatever
\* the position: there are finitely many.
LEMMA MovesFinite == IsFiniteSet(Moves)
<1> DEFINE P == Squares \X (Squares \X (Promotions \cup {NoPromotion}))
           f == [m \in Moves |-> <<m.from, <<m.to, m.promotion>>>>]
<1>1. IsFiniteSet(Squares)
  <2>1. 0 \in Int /\ 63 \in Int
    OBVIOUS
  <2> QED
    BY <2>1, FS_Interval DEF Squares
<1>2. IsFiniteSet(Promotions \cup {NoPromotion})
  <2>1. Promotions \cup {NoPromotion} = (((({} \cup {"Q"}) \cup {"R"}) \cup {"B"}) \cup {"N"}) \cup {NoPromotion}
    BY DEF Promotions
  <2>2. IsFiniteSet({})
    BY FS_EmptySet
  <2>3. \A S, x : IsFiniteSet(S) => IsFiniteSet(S \cup {x})
    BY FS_AddElement
  <2> QED
    BY <2>1, <2>2, <2>3
<1>3. IsFiniteSet(P)
  BY <1>1, <1>2, FS_Product
<1>4. f \in Injection(Moves, P)
  BY DEF Moves, Injection, IsInjective
<1> QED
  BY <1>3, <1>4, FS_Injection

LEMMA BesideSquares == ASSUME NEW s \in Squares, NEW deltas, \A d \in deltas : d \in Int \X Int
                       PROVE  Beside(s, deltas) \subseteq Squares
  BY DEF Beside, Inside, Sq, Squares, FileOf, RankOf

LEMMA RaysSquares == ASSUME NEW b, NEW s \in Squares, NEW rays \in SUBSET KingDeltas
                     PROVE  Rays(b, s, rays) \subseteq Squares
<1>1. ASSUME NEW d \in KingDeltas, NEW k \in DOMAIN Line[s][d] PROVE Line[s][d][k] \in Squares
  <2> DEFINE f == FileOf(s) + k * d[1]
             r == RankOf(s) + k * d[2]
  <2>1. k \in 1..7 /\ Inside(f, r) /\ Line[s][d][k] = Sq(f, r)
    BY DEF Line
  <2> QED
    BY <2>1 DEF Inside, Sq, Squares
<1> QED
  BY <1>1 DEF Rays, Along

LEMMA PawnMovesTyped == ASSUME NEW b, NEW s \in Squares PROVE PawnMoves(b, s) \subseteq Moves
<1> DEFINE step == IF b.white THEN 8 ELSE -8
           home == IF b.white THEN 1 ELSE 6
           push == {t \in {s + step} : t \in Squares /\ b.cells[t] = Empty}
           jump == {t \in {s + 2 * step} : RankOf(s) = home /\ push # {} /\ b.cells[t] = Empty}
           captures == {t \in Beside(s, {<<-1, step \div 8>>, <<1, step \div 8>>}) : Takes(b, t) \/ t = b.ep}
           last == IF b.white THEN 7 ELSE 0
<1>1. push \subseteq Squares
  OBVIOUS
<1>2. jump \subseteq Squares
  BY DEF Squares, RankOf
<1>3. captures \subseteq Squares
  <2>1. step \div 8 \in Int
    OBVIOUS
  <2> HIDE DEF step
  <2> QED
    BY <2>1, BesideSquares
<1>4. \A t \in push \cup jump \cup captures : t \in Squares
  BY <1>1, <1>2, <1>3
<1> HIDE DEF push, jump, captures, last
<1>5. UNION {IF RankOf(t) = last
             THEN {[from |-> s, to |-> t, promotion |-> p] : p \in Promotions}
             ELSE To(s, {t}) : t \in push \cup jump \cup captures} \subseteq Moves
  BY <1>4 DEF To, Moves
<1> QED
  BY <1>5 DEF PawnMoves, push, jump, captures, last

LEMMA ToTyped == ASSUME NEW s \in Squares, NEW targets \in SUBSET Squares PROVE To(s, targets) \subseteq Moves
  BY DEF To, Moves

LEMMA CastleMovesTyped == ASSUME NEW b, NEW s \in Squares PROVE CastleMoves(b, s) \subseteq Moves
<1>1. \A c \in Castlings : c.to \in Squares
  BY DEF Castlings, Squares
<1> QED
  BY <1>1 DEF CastleMoves, Moves

LEMMA MovesTyped ==
  ASSUME NEW b, NEW s \in Squares, b.cells[s] \in WhitePieces \cup BlackPieces
  PROVE  MovesFrom(b, s) \subseteq Moves
<1> DEFINE role == Role(b.cells[s])
<1>1. role \in WhitePieces
  BY DEF Role, RoleOf, WhitePieces, BlackPieces, BlackOf
<1>2. PawnMoves(b, s) \subseteq Moves /\ CastleMoves(b, s) \subseteq Moves
  BY PawnMovesTyped, CastleMovesTyped
<1>3. \A targets \in SUBSET Squares : To(s, Free(b, targets)) \subseteq Moves
  BY ToTyped DEF Free
<1>4. Beside(s, KnightDeltas) \subseteq Squares /\ Beside(s, KingDeltas) \subseteq Squares
  <2>1. \A d \in KnightDeltas \cup KingDeltas : d \in Int \X Int
    BY DEF KnightDeltas, KingDeltas, RookRays, BishopRays
  <2> QED
    BY <2>1, BesideSquares
<1>5. \A rays \in {RookRays, BishopRays, KingDeltas} : Rays(b, s, rays) \subseteq Squares
  BY RaysSquares DEF KingDeltas
<1> HIDE DEF role
<1>6. MovesFrom(b, s) =
        CASE role = "P" -> PawnMoves(b, s)
          [] role = "N" -> To(s, Free(b, Beside(s, KnightDeltas)))
          [] role = "B" -> To(s, Free(b, Rays(b, s, BishopRays)))
          [] role = "R" -> To(s, Free(b, Rays(b, s, RookRays)))
          [] role = "Q" -> To(s, Free(b, Rays(b, s, KingDeltas)))
          [] role = "K" -> To(s, Free(b, Beside(s, KingDeltas))) \cup CastleMoves(b, s)
  BY DEF MovesFrom, role
<1> QED
  BY <1>1, <1>2, <1>3, <1>4, <1>5, <1>6 DEF WhitePieces

\* The moves of a position can be counted, whatever the position.
LEMMA LegalFinite == ASSUME NEW b PROVE IsFiniteSet(LegalMoves(b))
<1>1. \A s \in Squares : b.cells[s] \in Of(b.white) => MovesFrom(b, s) \subseteq Moves
  BY MovesTyped DEF Of
<1>2. LegalMoves(b) \in SUBSET Moves
  BY <1>1 DEF LegalMoves, PseudoLegal
<1> QED
  BY <1>2, MovesFinite, FS_Subset

-----------------------------------------------------------------------------
Nodes == DOMAIN open

Counted == \A p \in Nodes : IsFiniteSet(open[p])
Known ==
  /\ cursor \in Nodes /\ at \in Nat \ {0}
  /\ positions \in Seq(Nodes) /\ ends \in Seq(Nodes) /\ agenda \in Seq(Nodes)
Numbers == num \in Nat /\ remaining \in Nat /\ value \in Nat /\ capacity \in Nat \ {0}

ConservedInv == Numbers /\ Counted /\ Known /\ Conserved

\* A number is its last digit and the rest of it.
LEMMA LastDigit ==
  ASSUME NEW r \in Nat \ {0}, NEW k \in Nat \ {0}
  PROVE  /\ (r - 1) \div k \in Nat /\ (r - 1) % k \in Nat
         /\ r = ((r - 1) \div k) * k + ((r - 1) % k) + 1
  OBVIOUS

LEMMA SpendConserves ==
  ASSUME Numbers, Conserved, remaining > 0, NEW k \in Nat \ {0}, Spend(k), num' = num
  PROVE  Numbers' /\ Conserved'
<1> DEFINE q == (remaining - 1) \div k
           d == (remaining - 1) % k
<1>1. q \in Nat /\ d \in Nat /\ remaining = q * k + d + 1
  BY LastDigit DEF Numbers
<1>2. remaining' = q /\ value' = value + (d + 1) * capacity /\ capacity' = capacity * k
  BY DEF Spend, Digit
<1> HIDE DEF q, d
<1>3. capacity * k \in Nat \ {0}
  BY DEF Numbers
<1>4. (d + 1) * capacity \in Nat
  BY <1>1 DEF Numbers
<1>5. Numbers'
  BY <1>1, <1>2, <1>3, <1>4 DEF Numbers
<1>6. value + remaining * capacity = value' + remaining' * capacity'
  <2>1. remaining * capacity = (q * k) * capacity + (d + 1) * capacity
    BY <1>1 DEF Numbers
  <2>2. (q * k) * capacity = q * (capacity * k)
    BY <1>1 DEF Numbers
  <2>3. remaining * capacity = q * (capacity * k) + (d + 1) * capacity
    BY <2>1, <2>2
  <2> DEFINE u == q * (capacity * k)
             v == (d + 1) * capacity
  <2>4. u \in Nat /\ v \in Nat
    BY <1>1, <1>3, <1>4
  <2>5. remaining * capacity = u + v /\ value' = value + v /\ remaining' * capacity' = u
    BY <1>2, <2>3
  <2> HIDE DEF u, v
  <2> QED
    BY <2>4, <2>5 DEF Numbers
<1> QED
  BY <1>5, <1>6 DEF Conserved

LEMMA WithIs ==
  ASSUME NEW f, NEW p, NEW v
  PROVE  /\ DOMAIN With(f, p, v) = DOMAIN f \cup {p}
         /\ \A x \in DOMAIN With(f, p, v) :
              (x \in DOMAIN f /\ With(f, p, v)[x] = f[x]) \/ (x = p /\ With(f, p, v)[x] = v)
<1> DEFINE g == [q \in DOMAIN f \cup {p} |-> IF q = p THEN v ELSE f[q]]
<1>1. DOMAIN g = DOMAIN f \cup {p}
  OBVIOUS
<1>2. ASSUME NEW x \in DOMAIN g PROVE (x \in DOMAIN f /\ g[x] = f[x]) \/ (x = p /\ g[x] = v)
  <2>1. CASE x = p
    BY <2>1
  <2>2. CASE x # p
    BY <2>2
  <2> QED
    BY <2>1, <2>2
<1> QED
  BY <1>1, <1>2 DEF With

LEMMA PlayKnows ==
  ASSUME Counted, NEW p \in Nodes, NEW move, Play(p, move)
  PROVE  Counted' /\ cursor' \in Nodes' /\ Nodes \subseteq Nodes'
<1> DEFINE child == Append(p, move)
           after == Apply(boards[p], move)
<1>1. cursor' = child /\ open' = With(open, child, LegalMoves(after))
  BY DEF Play
<1>2. IsFiniteSet(LegalMoves(after))
  BY LegalFinite
<1> HIDE DEF child, after
<1>3. /\ DOMAIN open' = DOMAIN open \cup {child}
      /\ \A x \in DOMAIN open' :
           (x \in DOMAIN open /\ open'[x] = open[x]) \/ (x = child /\ open'[x] = LegalMoves(after))
  <2> DEFINE g == With(open, child, LegalMoves(after))
  <2>1. /\ DOMAIN g = DOMAIN open \cup {child}
        /\ \A x \in DOMAIN g : (x \in DOMAIN open /\ g[x] = open[x]) \/ (x = child /\ g[x] = LegalMoves(after))
    BY WithIs
  <2>2. open' = g
    BY <1>1
  <2> HIDE DEF g
  <2> QED
    BY <2>1, <2>2
<1> QED
  BY <1>1, <1>2, <1>3 DEF Counted, Nodes

LEMMA WritePlyConserves ==
  ASSUME ConservedInv, remaining > 0, num' = num, NEW p \in Nodes, NEW moves \in SUBSET open[p], moves # {},
         WritePly(p, moves)
  PROVE  Numbers' /\ Counted' /\ Conserved' /\ cursor' \in Nodes' /\ Nodes \subseteq Nodes'
<1>1. IsFiniteSet(moves)
  BY FS_Subset DEF ConservedInv, Counted
<1>2. Cardinality(moves) \in Nat \ {0}
  BY <1>1, FS_CardinalityType, FS_EmptySet
<1> QED
  BY <1>2, SpendConserves, PlayKnows DEF ConservedInv, WritePly

LEMMA SeqGrows == ASSUME NEW S, NEW T, S \subseteq T PROVE Seq(S) \subseteq Seq(T)
  OBVIOUS

-----------------------------------------------------------------------------
LEMMA ConservedInit == ASSUME Init PROVE ConservedInv
<1>1. PICK g \in Games : num = g.num /\ open = [p \in {<<>>} |-> LegalMoves(g.start)]
  BY DEF Init, Only
<1>2. Nodes = {<<>>} /\ open[<<>>] = LegalMoves(g.start)
  BY <1>1 DEF Nodes
<1>3. Counted /\ Known
  BY <1>2, LegalFinite DEF Init, Counted, Known
<1>4. num \in Nat \ {0}
  BY <1>1, GamesAssumption
<1> QED
  BY <1>3, <1>4 DEF Init, ConservedInv, Numbers, Conserved

LEMMA ConservedNext == ASSUME ConservedInv, [Next]_vars PROVE ConservedInv'
<1>1. CASE MainPly
  <2>1. Numbers' /\ Counted' /\ Conserved' /\ cursor' \in Nodes' /\ Nodes \subseteq Nodes'
    BY <1>1, WritePlyConserves DEF MainPly, CanExtend, ConservedInv, Known
  <2>2. cursor \in Nodes /\ positions' = Append(positions, cursor) /\ UNCHANGED <<at, ends, agenda>>
    BY <1>1 DEF MainPly, ConservedInv, Known
  <2>3. Known'
    BY <2>1, <2>2, SeqGrows DEF ConservedInv, Known
  <2> QED
    BY <2>1, <2>3 DEF ConservedInv
<1>2. CASE AddVariation
  <2>1. Here \in Nodes
    BY <1>2 DEF AddVariation, Here, ConservedInv, Known
  <2>2. Numbers' /\ Counted' /\ Conserved' /\ cursor' \in Nodes' /\ Nodes \subseteq Nodes'
    BY <1>2, <2>1, WritePlyConserves DEF AddVariation, TakesMore, Available
  <2>3. UNCHANGED <<at, positions, ends, agenda>>
    BY <1>2 DEF AddVariation
  <2>4. Known'
    BY <2>2, <2>3, SeqGrows DEF ConservedInv, Known
  <2> QED
    BY <2>2, <2>4 DEF ConservedInv
<1>3. CASE BranchPly
  <2>1. Numbers' /\ Counted' /\ Conserved' /\ cursor' \in Nodes' /\ Nodes \subseteq Nodes'
    BY <1>3, WritePlyConserves DEF BranchPly, CanExtend, ConservedInv, Known
  <2>2. UNCHANGED <<at, positions, ends, agenda>>
    BY <1>3 DEF BranchPly, level
  <2>3. Known'
    BY <2>1, <2>2, SeqGrows DEF ConservedInv, Known
  <2> QED
    BY <2>1, <2>3 DEF ConservedInv
<1>4. ASSUME UNCHANGED <<num, remaining, value, capacity, open, cursor>>,
             at' \in Nat \ {0}, positions' \in Seq(Nodes), ends' \in Seq(Nodes), agenda' \in Seq(Nodes)
      PROVE  ConservedInv'
  BY <1>4 DEF ConservedInv, Numbers, Counted, Known, Nodes, Conserved
<1>5. CASE EndMainline
  <2>1. UNCHANGED <<num, remaining, value, capacity, open, cursor, positions, agenda>> /\ at' \in {1, at}
    BY <1>5 DEF EndMainline, Deal, tree, digits, level
  <2>2. ends' \in {<<>>, ends}
    BY <1>5 DEF EndMainline, Deal, level
  <2>3. /\ at' \in Nat \ {0} /\ positions' \in Seq(Nodes) /\ ends' \in Seq(Nodes) /\ agenda' \in Seq(Nodes)
    <3>1. at \in Nat \ {0} /\ positions \in Seq(Nodes) /\ ends \in Seq(Nodes) /\ agenda \in Seq(Nodes)
      BY DEF ConservedInv, Known
    <3>2. at' \in Nat \ {0}
      BY <2>1, <3>1
    <3>3. positions' \in Seq(Nodes) /\ agenda' \in Seq(Nodes)
      BY <2>1, <3>1
    <3>4. ends' \in Seq(Nodes)
      <4>1. <<>> \in Seq(Nodes)
        OBVIOUS
      <4>2. CASE ends' = <<>>
        BY <4>1, <4>2
      <4>3. CASE ends' = ends
        BY <3>1, <4>3
      <4> QED
        BY <2>2, <4>2, <4>3
    <3> QED
      BY <3>2, <3>3, <3>4
  <2> QED
    BY <1>4, <2>1, <2>3
<1>6. CASE EndBranch
  BY <1>4, <1>6 DEF EndBranch, ConservedInv, Known, tree, digits
<1>7. CASE NextPosition
  BY <1>4, <1>7 DEF NextPosition, ConservedInv, Known, tree, digits
<1>8. CASE NextRound
  BY <1>4, <1>8 DEF NextRound, ConservedInv, Known, tree, digits
<1>9. CASE EndLevel
  BY <1>4, <1>9 DEF EndLevel, ConservedInv, Known, tree, digits
<1>10. CASE Descend
  <2>1. Head(agenda) \in Nodes /\ Tail(agenda) \in Seq(Nodes)
    BY <1>10 DEF Descend, ConservedInv, Known
  <2> QED
    BY <1>4, <1>10, <2>1 DEF Descend, Deal, ConservedInv, Known, tree, digits
<1>11. CASE Finish
  BY <1>4, <1>11 DEF Finish, ConservedInv, Known, tree, digits, level
<1>12. CASE UNCHANGED vars
  BY <1>4, <1>12 DEF vars, ConservedInv, Known, tree, digits, level
<1> QED
  BY <1>1, <1>2, <1>3, <1>5, <1>6, <1>7, <1>8, <1>9, <1>10, <1>11, <1>12 DEF Next

\* Whatever the number, the position and the limits, the digits written and
\* what is left make up the number, at every step (ChessGenerator).
THEOREM NumberConserved == Spec => []Conserved
<1>1. ConservedInv => Conserved
  BY DEF ConservedInv
<1> QED
  BY ConservedInit, ConservedNext, <1>1, PTL DEF Spec

-----------------------------------------------------------------------------
\* Moves are told apart by their names: the places in the order of names are
\* the digits of a position, each of them once.
LEMMA UciKeyTyped == ASSUME NEW m \in Moves PROVE UciKey(m) \in Nat
<1> DEFINE square(s) == 8 * FileOf(s) + RankOf(s)
           letter == IF m.promotion = NoPromotion THEN 0 ELSE Letter[m.promotion]
<1>1. m.from \in Squares /\ m.to \in Squares /\ \A s \in Squares : square(s) \in Nat
  BY DEF Moves, Squares, FileOf, RankOf
<1>2. letter \in Nat
  BY DEF Moves, Promotions, NoPromotion, Letter
<1>3. UciKey(m) = 5 * (64 * square(m.from) + square(m.to)) + letter
  BY DEF UciKey
<1> HIDE DEF square, letter
<1> QED
  BY <1>1, <1>2, <1>3

LEMMA SquareNames ==
  ASSUME NEW s \in Squares, NEW t \in Squares, 8 * FileOf(s) + RankOf(s) = 8 * FileOf(t) + RankOf(t)
  PROVE  s = t
  BY DEF Squares, FileOf, RankOf

LEMMA UciKeyTellsApart == ASSUME NEW m \in Moves, NEW n \in Moves, UciKey(m) = UciKey(n) PROVE m = n
<1> DEFINE square(s) == 8 * FileOf(s) + RankOf(s)
           letter(x) == IF x.promotion = NoPromotion THEN 0 ELSE Letter[x.promotion]
<1>1. \A s \in Squares : square(s) \in 0..63
  BY DEF Squares, FileOf, RankOf
<1>2. letter(m) \in 0..4 /\ letter(n) \in 0..4 /\ (letter(m) = letter(n) => m.promotion = n.promotion)
  BY DEF Moves, Promotions, NoPromotion, Letter
<1>3. /\ UciKey(m) = 5 * (64 * square(m.from) + square(m.to)) + letter(m)
      /\ UciKey(n) = 5 * (64 * square(n.from) + square(n.to)) + letter(n)
  BY DEF UciKey
<1>4. m.from \in Squares /\ m.to \in Squares /\ n.from \in Squares /\ n.to \in Squares
  BY DEF Moves
<1>5. square(m.from) = square(n.from) /\ square(m.to) = square(n.to) /\ letter(m) = letter(n)
  <2>1. square(m.from) \in 0..63 /\ square(m.to) \in 0..63 /\ square(n.from) \in 0..63 /\ square(n.to) \in 0..63
    BY <1>1, <1>4
  <2> DEFINE a == square(m.from)
             b == square(m.to)
             c == square(n.from)
             d == square(n.to)
             x == letter(m)
             y == letter(n)
  <2>2. a \in 0..63 /\ b \in 0..63 /\ c \in 0..63 /\ d \in 0..63 /\ x \in 0..4 /\ y \in 0..4
    BY <1>2, <2>1
  <2>3. 5 * (64 * a + b) + x = 5 * (64 * c + d) + y
    BY <1>3
  <2> HIDE DEF a, b, c, d, x, y
  <2>4. a = c /\ b = d /\ x = y
    BY <2>2, <2>3
  <2> QED
    BY <2>4 DEF a, b, c, d, x, y
<1>6. m.from = n.from /\ m.to = n.to
  BY <1>4, <1>5, SquareNames
<1> QED
  BY <1>2, <1>5, <1>6 DEF Moves

LEMMA MoveSetsFinite == ASSUME NEW S \in SUBSET Moves PROVE IsFiniteSet(S) /\ Cardinality(S) \in Nat
  BY MovesFinite, FS_Subset, FS_CardinalityType

LEMMA StrictlyFewer ==
  ASSUME NEW S, IsFiniteSet(S), NEW T \in SUBSET S, T # S
  PROVE  Cardinality(T) \in Nat /\ Cardinality(S) \in Nat /\ Cardinality(T) < Cardinality(S)
<1>1. IsFiniteSet(T) /\ Cardinality(T) <= Cardinality(S) /\ (Cardinality(S) = Cardinality(T) => S = T)
  BY FS_Subset
<1>2. Cardinality(T) \in Nat /\ Cardinality(S) \in Nat
  BY <1>1, FS_CardinalityType
<1> QED
  BY <1>1, <1>2

LEMMA IndexTyped ==
  ASSUME NEW S \in SUBSET Moves, NEW m \in S PROVE IndexIn(S, m) \in 0..(Cardinality(S) - 1)
<1> DEFINE below == {n \in S : UciKey(n) < UciKey(m)}
<1>1. below \subseteq S /\ below # S
  BY UciKeyTyped
<1> QED
  BY <1>1, MoveSetsFinite, StrictlyFewer DEF IndexIn

LEMMA IndexTellsApart ==
  ASSUME NEW S \in SUBSET Moves, NEW m \in S, NEW n \in S, IndexIn(S, m) = IndexIn(S, n) PROVE m = n
<1>1. ASSUME NEW x \in S, NEW y \in S, UciKey(x) < UciKey(y) PROVE IndexIn(S, x) # IndexIn(S, y)
  <2> DEFINE lower == {k \in S : UciKey(k) < UciKey(x)}
             upper == {k \in S : UciKey(k) < UciKey(y)}
  <2>1. lower \subseteq upper /\ x \in upper /\ x \notin lower
    BY <1>1, UciKeyTyped
  <2>2. IsFiniteSet(upper)
    <3>1. upper \in SUBSET Moves
      OBVIOUS
    <3> QED
      BY <3>1, MoveSetsFinite
  <2>3. Cardinality(lower) < Cardinality(upper) /\ Cardinality(lower) \in Nat /\ Cardinality(upper) \in Nat
    BY <2>1, <2>2, StrictlyFewer
  <2> QED
    BY <2>3 DEF IndexIn
<1>2. UciKey(m) \in Nat /\ UciKey(n) \in Nat
  BY UciKeyTyped
<1>3. UciKey(m) = UciKey(n)
  BY <1>1, <1>2
<1> QED
  BY <1>3, UciKeyTellsApart

\* Every digit stands for one move, and the move for that digit.
LEMMA NthIs ==
  ASSUME NEW S \in SUBSET Moves, NEW i \in 0..(Cardinality(S) - 1)
  PROVE  Nth(S, i) \in S /\ IndexIn(S, Nth(S, i)) = i
<1> DEFINE T == 0..(Cardinality(S) - 1)
           f == [m \in S |-> IndexIn(S, m)]
<1>1. IsFiniteSet(S) /\ Cardinality(S) \in Nat
  BY MoveSetsFinite
<1>2. f \in [S -> T]
  BY IndexTyped
<1>3. f \in Injection(S, T)
  BY <1>2, IndexTellsApart DEF Injection, IsInjective
<1>4. IsFiniteSet(T) /\ Cardinality(T) = Cardinality(S)
  BY <1>1, FS_Interval
<1>5. f \in Surjection(S, T)
  BY <1>3, <1>4, FS_Injection
<1>6. \E m \in S : IndexIn(S, m) = i
  BY <1>5 DEF Surjection
<1> QED
  BY <1>6 DEF Nth

-----------------------------------------------------------------------------
\* Pieces.
LEMMA WhiteMen == ASSUME NEW p \in WhitePieces PROVE Role(p) = p /\ Man(TRUE, p) = p
  BY DEF WhitePieces, BlackPieces, Role, RoleOf, BlackOf, Man

LEMMA BlackMen ==
  ASSUME NEW p \in BlackPieces PROVE Role(p) \in WhitePieces /\ BlackOf[Role(p)] = p
  BY DEF WhitePieces, BlackPieces, Role, RoleOf, BlackOf

LEMMA Men ==
  ASSUME NEW w \in BOOLEAN, NEW p \in Of(w)
  PROVE  /\ Role(p) \in WhitePieces /\ p = Man(w, Role(p))
         /\ p \notin Of(~w) /\ p # Empty /\ p \in WhitePieces \cup BlackPieces
<1>1. CASE w = TRUE
  <2>1. p \in WhitePieces /\ Role(p) = p
    BY <1>1, WhiteMen DEF Of
  <2> QED
    BY <1>1, <2>1 DEF Man, Of, Empty, WhitePieces, BlackPieces
<1>2. CASE w = FALSE
  <2>1. p \in BlackPieces /\ Role(p) \in WhitePieces /\ BlackOf[Role(p)] = p
    BY <1>2, BlackMen DEF Of
  <2> QED
    BY <1>2, <2>1 DEF Man, Of, Empty, WhitePieces, BlackPieces
<1> QED
  BY <1>1, <1>2

LEMMA ManIs ==
  ASSUME NEW w \in BOOLEAN, NEW r \in WhitePieces PROVE Man(w, r) \in Of(w) /\ Role(Man(w, r)) = r
<1>1. CASE w = TRUE
  BY <1>1, WhiteMen DEF Man, Of
<1>2. CASE w = FALSE
  <2>1. Man(w, r) = BlackOf[r] /\ BlackOf[r] \in BlackPieces
    BY <1>2 DEF Man, WhitePieces, BlackPieces, BlackOf
  <2>2. Role(BlackOf[r]) \in WhitePieces /\ BlackOf[Role(BlackOf[r])] = BlackOf[r]
    BY <2>1, BlackMen
  <2>3. \A x, y \in WhitePieces : BlackOf[x] = BlackOf[y] => x = y
    BY DEF WhitePieces, BlackOf
  <2> QED
    BY <1>2, <2>1, <2>2, <2>3 DEF Of
<1> QED
  BY <1>1, <1>2

-----------------------------------------------------------------------------
\* Squares.
LEMMA SquareIs ==
  ASSUME NEW s \in Squares
  PROVE  FileOf(s) \in 0..7 /\ RankOf(s) \in 0..7 /\ s = Sq(FileOf(s), RankOf(s)) /\ s \in Int
  BY DEF Squares, FileOf, RankOf, Sq

LEMMA SqIs ==
  ASSUME NEW f \in 0..7, NEW r \in 0..7
  PROVE  Sq(f, r) \in Squares /\ FileOf(Sq(f, r)) = f /\ RankOf(Sq(f, r)) = r
  BY DEF Squares, FileOf, RankOf, Sq

LEMMA BesideIs ==
  ASSUME NEW s \in Squares, NEW deltas, \A d \in deltas : d \in Int \X Int, NEW t \in Beside(s, deltas)
  PROVE  t \in Squares /\ \E d \in deltas : FileOf(t) = FileOf(s) + d[1] /\ RankOf(t) = RankOf(s) + d[2]
<1>1. PICK d \in deltas : /\ Inside(FileOf(s) + d[1], RankOf(s) + d[2])
                          /\ t = Sq(FileOf(s) + d[1], RankOf(s) + d[2])
  BY DEF Beside
<1> QED
  BY <1>1, SqIs DEF Inside

LEMMA BesideMade ==
  ASSUME NEW s \in Squares, NEW t \in Squares, NEW deltas, NEW d \in deltas,
         FileOf(t) = FileOf(s) + d[1], RankOf(t) = RankOf(s) + d[2]
  PROVE  t \in Beside(s, deltas)
  BY SquareIs DEF Beside, Inside

\* A square that lies one delta away lies the opposite delta back.
LEMMA BesideBack ==
  ASSUME NEW s \in Squares, NEW deltas, NEW back, \A d \in deltas : d \in Int \X Int,
         \A d \in deltas : <<-d[1], -d[2]>> \in back,
         NEW t \in Beside(s, deltas)
  PROVE  t \in Squares /\ s \in Beside(t, back)
<1>1. PICK d \in deltas : t \in Squares /\ FileOf(t) = FileOf(s) + d[1] /\ RankOf(t) = RankOf(s) + d[2]
  BY BesideIs
<1> DEFINE e == <<-d[1], -d[2]>>
<1>2. e \in back /\ e[1] = -d[1] /\ e[2] = -d[2] /\ d[1] \in Int /\ d[2] \in Int
  BY <1>1
<1>3. FileOf(s) = FileOf(t) + e[1] /\ RankOf(s) = RankOf(t) + e[2]
  BY <1>1, <1>2, SquareIs
<1> HIDE DEF e
<1> QED
  BY <1>1, <1>2, <1>3, BesideMade

LEMMA DeltasAre ==
  /\ \A d \in KnightDeltas : d \in Int \X Int /\ <<-d[1], -d[2]>> \in KnightDeltas /\ d[1] # 0
  /\ \A d \in RookRays : d \in Int \X Int /\ <<-d[1], -d[2]>> \in RookRays
  /\ \A d \in BishopRays : d \in Int \X Int /\ <<-d[1], -d[2]>> \in BishopRays
  /\ \A d \in KingDeltas : /\ d \in Int \X Int /\ <<-d[1], -d[2]>> \in KingDeltas
                           /\ d[1] \in {-1, 0, 1} /\ d[2] \in {-1, 0, 1} /\ (d[1] # 0 \/ d[2] # 0)
  /\ RookRays \subseteq KingDeltas /\ BishopRays \subseteq KingDeltas
<1>1. \A d \in KnightDeltas : d \in Int \X Int /\ <<-d[1], -d[2]>> \in KnightDeltas /\ d[1] # 0
  BY DEF KnightDeltas
<1>2. \A d \in RookRays : d \in Int \X Int /\ <<-d[1], -d[2]>> \in RookRays
  BY DEF RookRays
<1>3. \A d \in BishopRays : d \in Int \X Int /\ <<-d[1], -d[2]>> \in BishopRays
  BY DEF BishopRays
<1>4. \A d \in KingDeltas : d[1] \in {-1, 0, 1} /\ d[2] \in {-1, 0, 1} /\ (d[1] # 0 \/ d[2] # 0)
  BY DEF KingDeltas, RookRays, BishopRays
<1> QED
  BY <1>1, <1>2, <1>3, <1>4 DEF KingDeltas

LEMMA LineIs ==
  ASSUME NEW s \in Squares, NEW d \in KingDeltas, NEW k \in 1..7
  PROVE  LET f == FileOf(s) + k * d[1]
             r == RankOf(s) + k * d[2]
         IN /\ k \in DOMAIN Line[s][d] <=> Inside(f, r)
            /\ Inside(f, r) => Line[s][d][k] = Sq(f, r)
  BY DEF Line

LEMMA LineDomain ==
  ASSUME NEW s \in Squares, NEW d \in KingDeltas, NEW k \in DOMAIN Line[s][d] PROVE k \in 1..7
  BY DEF Line

LEMMA Times ==
  ASSUME NEW e \in {-1, 0, 1}, NEW k \in Int, NEW i \in Int
  PROVE  k * e \in Int /\ k * e - i * e = (k - i) * e /\ (k * e = 0 => k = 0 \/ e = 0)
<1>1. CASE e = -1
  <2>1. k * e = -k /\ i * e = -i /\ (k - i) * e = -(k - i)
    BY <1>1
  <2> QED
    BY <1>1, <2>1
<1>2. CASE e = 0
  BY <1>2
<1>3. CASE e = 1
  BY <1>3
<1> QED
  BY <1>1, <1>2, <1>3

LEMMA TimesBack ==
  ASSUME NEW e \in {-1, 0, 1}, NEW g \in {-1, 0, 1}, g = -e, NEW k \in Int
  PROVE  k * g = -(k * e) /\ k * e \in Int
<1>1. CASE e = -1 /\ g = 1
  BY <1>1
<1>2. CASE e = 0 /\ g = 0
  BY <1>2
<1>3. CASE e = 1 /\ g = -1
  BY <1>3
<1> QED
  BY <1>1, <1>2, <1>3

\* A square seen along a ray sees back, past the same empty squares.
LEMMA RaysBack ==
  ASSUME NEW b, NEW s \in Squares, NEW rays \in SUBSET KingDeltas,
         \A d \in rays : <<-d[1], -d[2]>> \in rays,
         NEW t \in Rays(b, s, rays)
  PROVE  t \in Squares /\ t # s /\ s \in Rays(b, t, rays)
<1>1. PICK d \in rays : t \in Along(b, s, d)
  BY DEF Rays
<1>2. PICK k \in DOMAIN Line[s][d] : t = Line[s][d][k] /\ \A i \in 1..(k - 1) : b.cells[Line[s][d][i]] = Empty
  BY <1>1 DEF Along
<1> DEFINE e == <<-d[1], -d[2]>>
<1>3. d \in KingDeltas /\ e \in rays /\ e \in KingDeltas /\ e[1] = -d[1] /\ e[2] = -d[2]
  BY <1>1
<1>4. d[1] \in {-1, 0, 1} /\ d[2] \in {-1, 0, 1} /\ (d[1] # 0 \/ d[2] # 0)
  BY <1>3, DeltasAre
<1>5. k \in 1..7
  BY <1>2, <1>3, LineDomain
<1> DEFINE F(i) == FileOf(s) + i * d[1]
           R(i) == RankOf(s) + i * d[2]
<1>6. FileOf(s) \in 0..7 /\ RankOf(s) \in 0..7
  BY SquareIs
<1>7. \A i \in 0..7 : F(i) \in Int /\ R(i) \in Int
  <2> SUFFICES ASSUME NEW i \in 0..7 PROVE F(i) \in Int /\ R(i) \in Int
    OBVIOUS
  <2>1. i * d[1] \in Int /\ i * d[2] \in Int
    BY <1>4, Times
  <2> QED
    BY <1>6, <2>1
<1>8. Inside(F(k), R(k)) /\ t = Sq(F(k), R(k))
  BY <1>2, <1>3, <1>5, LineIs
<1>9. t \in Squares /\ FileOf(t) = F(k) /\ RankOf(t) = R(k)
  <2> HIDE DEF F, R
  <2> QED
    BY <1>8, SqIs DEF Inside
<1>10. \A i \in 1..7 : i <= k => FileOf(t) + i * e[1] = F(k - i) /\ RankOf(t) + i * e[2] = R(k - i)
  <2> SUFFICES ASSUME NEW i \in 1..7, i <= k
               PROVE FileOf(t) + i * e[1] = F(k - i) /\ RankOf(t) + i * e[2] = R(k - i)
    OBVIOUS
  <2>1. /\ k * d[1] - i * d[1] = (k - i) * d[1]
        /\ k * d[1] \in Int /\ i * d[1] \in Int
    BY <1>4, <1>5, Times
  <2>2. /\ k * d[2] - i * d[2] = (k - i) * d[2]
        /\ k * d[2] \in Int /\ i * d[2] \in Int
    BY <1>4, <1>5, Times
  <2>3. i * e[1] = -(i * d[1]) /\ i * e[2] = -(i * d[2])
    <3>1. e[1] \in {-1, 0, 1} /\ e[2] \in {-1, 0, 1}
      BY <1>3, DeltasAre
    <3> QED
      BY <1>3, <1>4, <3>1, TimesBack
  <2>4. FileOf(t) + i * e[1] = FileOf(s) + (k * d[1] - i * d[1])
    BY <1>6, <1>9, <2>1, <2>3
  <2>5. RankOf(t) + i * e[2] = RankOf(s) + (k * d[2] - i * d[2])
    BY <1>6, <1>9, <2>2, <2>3
  <2> QED
    BY <2>1, <2>2, <2>4, <2>5
<1>11. F(0) = FileOf(s) /\ R(0) = RankOf(s)
  <2>1. 0 * d[1] = 0 /\ 0 * d[2] = 0
    BY <1>4
  <2> QED
    BY <1>6, <2>1
<1>12. t # s
  <2>1. k * d[1] \in Int /\ k * d[2] \in Int /\ (k * d[1] # 0 \/ k * d[2] # 0)
    <3>1. k \in Int /\ k # 0
      BY <1>5
    <3>2. k * d[1] \in Int /\ (k * d[1] = 0 => k = 0 \/ d[1] = 0)
      BY <1>4, <3>1, Times
    <3>3. k * d[2] \in Int /\ (k * d[2] = 0 => k = 0 \/ d[2] = 0)
      BY <1>4, <3>1, Times
    <3> QED
      BY <1>4, <3>1, <3>2, <3>3
  <2> QED
    BY <1>6, <1>9, <2>1
<1>13. k \in DOMAIN Line[t][e] /\ Line[t][e][k] = s
  <2>1. FileOf(t) + k * e[1] = FileOf(s) /\ RankOf(t) + k * e[2] = RankOf(s)
    BY <1>5, <1>10, <1>11
  <2>2. Inside(FileOf(s), RankOf(s)) /\ s = Sq(FileOf(s), RankOf(s))
    BY SquareIs DEF Inside
  <2> HIDE DEF e
  <2> QED
    BY <1>3, <1>5, <1>9, <2>1, <2>2, LineIs
<1>14. ASSUME NEW i \in 1..(k - 1) PROVE b.cells[Line[t][e][i]] = Empty
  <2>1. i \in 1..7 /\ i <= k /\ k - i \in 1..(k - 1) /\ k - i \in 1..7
    BY <1>5
  <2>2. FileOf(t) + i * e[1] = F(k - i) /\ RankOf(t) + i * e[2] = R(k - i)
    BY <1>10, <2>1
  <2>3. Inside(F(k - i), R(k - i))
    <3> DEFINE j == k - i
    <3>2. F(k) \in 0..7 /\ R(k) \in 0..7
      BY <1>8 DEF Inside
    <3>3. F(j) \in 0..7
      <4>1. CASE d[1] = 0
        BY <1>6, <4>1, <2>1
      <4>2. CASE d[1] = 1
        BY <1>5, <1>6, <3>2, <4>2, <2>1
      <4>3. CASE d[1] = -1
        BY <1>5, <1>6, <3>2, <4>3, <2>1
      <4> QED
        BY <1>4, <4>1, <4>2, <4>3
    <3>4. R(j) \in 0..7
      <4>1. CASE d[2] = 0
        BY <1>6, <4>1, <2>1
      <4>2. CASE d[2] = 1
        BY <1>5, <1>6, <3>2, <4>2, <2>1
      <4>3. CASE d[2] = -1
        BY <1>5, <1>6, <3>2, <4>3, <2>1
      <4> QED
        BY <1>4, <4>1, <4>2, <4>3
    <3> QED
      BY <3>3, <3>4 DEF Inside
  <2>4. Line[s][d][k - i] = Sq(F(k - i), R(k - i))
    BY <1>3, <2>1, <2>3, LineIs
  <2>5. Line[t][e][i] = Sq(F(k - i), R(k - i))
    <3> HIDE DEF e, F, R
    <3> QED
      BY <1>3, <1>9, <2>1, <2>2, <2>3, LineIs
  <2> QED
    BY <1>2, <2>1, <2>4, <2>5
<1>15. s \in Along(b, t, e)
  BY <1>13, <1>14 DEF Along
<1> QED
  BY <1>3, <1>9, <1>12, <1>15 DEF Rays

-----------------------------------------------------------------------------
\* What a move is, by the piece that makes it.
Forward(b) == IF b.white THEN 1 ELSE -1
PawnCaptures(b) == {<<-1, Forward(b)>>, <<1, Forward(b)>>}

PawnPush(b, m) == m.to = m.from + 8 * Forward(b) /\ b.cells[m.to] = Empty
PawnJump(b, m) ==
  LET over == m.from + 8 * Forward(b) IN
  /\ m.to = m.from + 16 * Forward(b) /\ over \in Squares /\ b.cells[over] = Empty /\ b.cells[m.to] = Empty
  /\ RankOf(m.from) = IF b.white THEN 1 ELSE 6
PawnCapture(b, m) == m.to \in Beside(m.from, PawnCaptures(b)) /\ (Takes(b, m.to) \/ m.to = b.ep)
PawnWay(b, m) ==
  /\ PawnPush(b, m) \/ PawnJump(b, m) \/ PawnCapture(b, m)
  /\ IF RankOf(m.to) = (IF b.white THEN 7 ELSE 0) THEN m.promotion \in Promotions ELSE m.promotion = NoPromotion

Reach(b, m, targets) == m.to \in targets /\ b.cells[m.to] \notin Of(b.white) /\ m.promotion = NoPromotion

CastleWay(b, m, c) ==
  /\ m.promotion = NoPromotion /\ m.from = c.from /\ m.to = c.to
  /\ b.cells[c.from] = c.king /\ c.right \in b.castling /\ b.cells[c.corner] = c.rook
  /\ \A t \in c.lane : b.cells[t] = Empty

LEMMA PawnMovesAre ==
  ASSUME NEW b, NEW s \in Squares, NEW m \in PawnMoves(b, s) PROVE m.from = s /\ PawnWay(b, m)
<1> DEFINE step == IF b.white THEN 8 ELSE -8
           home == IF b.white THEN 1 ELSE 6
           push == {t \in {s + step} : t \in Squares /\ b.cells[t] = Empty}
           jump == {t \in {s + 2 * step} : RankOf(s) = home /\ push # {} /\ b.cells[t] = Empty}
           captures == {t \in Beside(s, {<<-1, step \div 8>>, <<1, step \div 8>>}) : Takes(b, t) \/ t = b.ep}
           last == IF b.white THEN 7 ELSE 0
           made(t) == IF RankOf(t) = last
                      THEN {[from |-> s, to |-> t, promotion |-> p] : p \in Promotions}
                      ELSE To(s, {t})
<1>1. PICK t \in push \cup jump \cup captures : m \in made(t)
  BY DEF PawnMoves
<1>2. m.from = s /\ m.to = t /\ IF RankOf(t) = last THEN m.promotion \in Promotions ELSE m.promotion = NoPromotion
  <2>1. CASE RankOf(t) = last
    BY <1>1, <2>1
  <2>2. CASE RankOf(t) # last
    BY <1>1, <2>2 DEF To
  <2> QED
    BY <2>1, <2>2
<1>3. step \div 8 = Forward(b) /\ step = 8 * Forward(b) /\ 2 * step = 16 * Forward(b) /\ s \in Int
  BY DEF Forward, Squares
<1>4. t \in push => PawnPush(b, m)
  BY <1>2, <1>3 DEF PawnPush
<1>5. t \in jump => PawnJump(b, m)
  BY <1>2, <1>3 DEF PawnJump
<1>6. t \in captures => PawnCapture(b, m)
  BY <1>2, <1>3 DEF PawnCapture, PawnCaptures
<1> QED
  BY <1>1, <1>2, <1>4, <1>5, <1>6 DEF PawnWay

LEMMA CastleMovesAre ==
  ASSUME NEW b, NEW s \in Squares, NEW m \in CastleMoves(b, s)
  PROVE  m.from = s /\ \E c \in Castlings : CastleWay(b, m, c)
  BY DEF CastleMoves, CastleWay

LEMMA ToAre ==
  ASSUME NEW b, NEW s, NEW targets, NEW m \in To(s, Free(b, targets)) PROVE m.from = s /\ Reach(b, m, targets)
  BY DEF To, Free, Reach

Way(b, m) ==
  LET role == Role(b.cells[m.from]) IN
  \/ role = "P" /\ PawnWay(b, m)
  \/ role = "N" /\ Reach(b, m, Beside(m.from, KnightDeltas))
  \/ role = "B" /\ Reach(b, m, Rays(b, m.from, BishopRays))
  \/ role = "R" /\ Reach(b, m, Rays(b, m.from, RookRays))
  \/ role = "Q" /\ Reach(b, m, Rays(b, m.from, KingDeltas))
  \/ role = "K" /\ Reach(b, m, Beside(m.from, KingDeltas))
  \/ role = "K" /\ \E c \in Castlings : CastleWay(b, m, c)

LEMMA MovesAre ==
  ASSUME NEW b \in Board, NEW m \in PseudoLegal(b)
  PROVE  m \in Moves /\ b.cells[m.from] \in Of(b.white) /\ Way(b, m)
<1>1. PICK s \in Squares : b.cells[s] \in Of(b.white) /\ m \in MovesFrom(b, s)
  BY DEF PseudoLegal
<1>2. b.white \in BOOLEAN /\ b.cells[s] \in WhitePieces \cup BlackPieces /\ Role(b.cells[s]) \in WhitePieces
  BY <1>1, Men DEF Board
<1>3. m \in Moves
  BY <1>1, <1>2, MovesTyped
<1> DEFINE role == Role(b.cells[s])
<1>4. MovesFrom(b, s) =
        CASE role = "P" -> PawnMoves(b, s)
          [] role = "N" -> To(s, Free(b, Beside(s, KnightDeltas)))
          [] role = "B" -> To(s, Free(b, Rays(b, s, BishopRays)))
          [] role = "R" -> To(s, Free(b, Rays(b, s, RookRays)))
          [] role = "Q" -> To(s, Free(b, Rays(b, s, KingDeltas)))
          [] role = "K" -> To(s, Free(b, Beside(s, KingDeltas))) \cup CastleMoves(b, s)
  BY DEF MovesFrom
<1>5. role \in {"P", "N", "B", "R", "Q", "K"}
  BY <1>2 DEF WhitePieces
<1> HIDE DEF role
<1>6. \/ role = "P" /\ m \in PawnMoves(b, s)
      \/ role = "N" /\ m \in To(s, Free(b, Beside(s, KnightDeltas)))
      \/ role = "B" /\ m \in To(s, Free(b, Rays(b, s, BishopRays)))
      \/ role = "R" /\ m \in To(s, Free(b, Rays(b, s, RookRays)))
      \/ role = "Q" /\ m \in To(s, Free(b, Rays(b, s, KingDeltas)))
      \/ role = "K" /\ m \in To(s, Free(b, Beside(s, KingDeltas)))
      \/ role = "K" /\ m \in CastleMoves(b, s)
  BY <1>1, <1>4, <1>5
<1>7. m.from = s /\ Way(b, m)
  <2>1. CASE role = "P" /\ m \in PawnMoves(b, s)
    BY <2>1, PawnMovesAre DEF Way, role
  <2>2. CASE role = "N" /\ m \in To(s, Free(b, Beside(s, KnightDeltas)))
    BY <2>2, ToAre DEF Way, role
  <2>3. CASE role = "B" /\ m \in To(s, Free(b, Rays(b, s, BishopRays)))
    BY <2>3, ToAre DEF Way, role
  <2>4. CASE role = "R" /\ m \in To(s, Free(b, Rays(b, s, RookRays)))
    BY <2>4, ToAre DEF Way, role
  <2>5. CASE role = "Q" /\ m \in To(s, Free(b, Rays(b, s, KingDeltas)))
    BY <2>5, ToAre DEF Way, role
  <2>6. CASE role = "K" /\ m \in To(s, Free(b, Beside(s, KingDeltas)))
    BY <2>6, ToAre DEF Way, role
  <2>7. CASE role = "K" /\ m \in CastleMoves(b, s)
    BY <2>7, CastleMovesAre DEF Way, role
  <2> QED
    BY <1>6, <2>1, <2>2, <2>3, <2>4, <2>5, <2>6, <2>7
<1> QED
  BY <1>1, <1>3, <1>7

-----------------------------------------------------------------------------
\* Pawns on the board.
LEMMA PawnGoes ==
  ASSUME NEW b \in Board, NEW m \in Moves, RankOf(m.from) \in 1..6, PawnWay(b, m)
  PROVE  /\ PawnPush(b, m) => RankOf(m.to) = RankOf(m.from) + Forward(b) /\ FileOf(m.to) = FileOf(m.from)
         /\ PawnJump(b, m) => /\ RankOf(m.to) = RankOf(m.from) + 2 * Forward(b) /\ FileOf(m.to) = FileOf(m.from)
                              /\ (m.from + m.to) \div 2 = m.from + 8 * Forward(b)
         /\ PawnCapture(b, m) => /\ RankOf(m.to) = RankOf(m.from) + Forward(b)
                                 /\ FileOf(m.to) = FileOf(m.from) - 1 \/ FileOf(m.to) = FileOf(m.from) + 1
         /\ m.to # m.from
<1>1. m.from \in Squares /\ m.to \in Squares
  BY DEF Moves
<1>2. PawnPush(b, m) => RankOf(m.to) = RankOf(m.from) + Forward(b) /\ FileOf(m.to) = FileOf(m.from)
  BY <1>1 DEF PawnPush, Forward, RankOf, FileOf, Squares
<1>3. PawnJump(b, m) => /\ RankOf(m.to) = RankOf(m.from) + 2 * Forward(b) /\ FileOf(m.to) = FileOf(m.from)
                        /\ (m.from + m.to) \div 2 = m.from + 8 * Forward(b)
  BY <1>1 DEF PawnJump, Forward, RankOf, FileOf, Squares
<1>4. PawnCapture(b, m) => /\ RankOf(m.to) = RankOf(m.from) + Forward(b)
                           /\ FileOf(m.to) = FileOf(m.from) - 1 \/ FileOf(m.to) = FileOf(m.from) + 1
  <2> SUFFICES ASSUME PawnCapture(b, m)
               PROVE /\ RankOf(m.to) = RankOf(m.from) + Forward(b)
                     /\ FileOf(m.to) = FileOf(m.from) - 1 \/ FileOf(m.to) = FileOf(m.from) + 1
    OBVIOUS
  <2>1. \A d \in PawnCaptures(b) : d \in Int \X Int /\ d[2] = Forward(b) /\ d[1] \in {-1, 1}
    BY DEF PawnCaptures, Forward
  <2>2. PICK d \in PawnCaptures(b) : FileOf(m.to) = FileOf(m.from) + d[1] /\ RankOf(m.to) = RankOf(m.from) + d[2]
    BY <1>1, <2>1, BesideIs DEF PawnCapture
  <2>3. FileOf(m.from) \in 0..7
    BY <1>1, SquareIs
  <2> QED
    BY <2>1, <2>2, <2>3
<1>5. Forward(b) \in {1, -1} /\ (PawnPush(b, m) \/ PawnJump(b, m) \/ PawnCapture(b, m))
  BY DEF Forward, PawnWay
<1> QED
  BY <1>1, <1>2, <1>3, <1>4, <1>5, SquareIs DEF Forward

\* A piece that takes another attacks the square it stands on.
LEMMA CaptureAttacks ==
  ASSUME NEW b \in Board, NEW m \in PseudoLegal(b), b.cells[m.to] \in Of(~b.white), m.to # b.ep
  PROVE  Attacked(b, b.white, m.to)
<1>1. m \in Moves /\ b.cells[m.from] \in Of(b.white) /\ Way(b, m) /\ b.white \in BOOLEAN
  BY MovesAre DEF Board
<1>2. m.from \in Squares /\ m.to \in Squares
  BY <1>1 DEF Moves
<1>3. b.cells[m.from] = Man(b.white, Role(b.cells[m.from])) /\ b.cells[m.to] # Empty
  BY <1>1, Men
<1> DEFINE from(deltas, role) == \E o \in Beside(m.to, deltas) : b.cells[o] = Man(b.white, role)
           ray(rays, role) == \E o \in Rays(b, m.to, rays) : b.cells[o] \in {Man(b.white, role), Man(b.white, "Q")}
           behind == IF b.white THEN -1 ELSE 1
<1>4. Attacked(b, b.white, m.to) <=>
        \/ from({<<-1, behind>>, <<1, behind>>}, "P")
        \/ from(KnightDeltas, "N")
        \/ ray(RookRays, "R") \/ ray(BishopRays, "B")
        \/ from(KingDeltas, "K")
  BY DEF Attacked
<1>5. CASE Role(b.cells[m.from]) = "P" /\ PawnWay(b, m)
  <2>1. PawnCapture(b, m)
    BY <1>3, <1>5 DEF PawnWay, PawnPush, PawnJump
  <2>2. \A d \in PawnCaptures(b) : d \in Int \X Int /\ <<-d[1], -d[2]>> \in {<<-1, behind>>, <<1, behind>>}
    BY DEF PawnCaptures, Forward
  <2> HIDE DEF behind
  <2>3. m.from \in Beside(m.to, {<<-1, behind>>, <<1, behind>>})
    BY <1>2, <2>1, <2>2, BesideBack DEF PawnCapture
  <2> QED
    BY <1>3, <1>4, <1>5, <2>3
<1>6. CASE Role(b.cells[m.from]) = "N" /\ Reach(b, m, Beside(m.from, KnightDeltas))
  <2>1. m.from \in Beside(m.to, KnightDeltas)
    BY <1>2, <1>6, BesideBack, DeltasAre DEF Reach
  <2> QED
    BY <1>3, <1>4, <1>6, <2>1
<1>7. CASE Role(b.cells[m.from]) = "B" /\ Reach(b, m, Rays(b, m.from, BishopRays))
  <2>1. m.from \in Rays(b, m.to, BishopRays)
    BY <1>2, <1>7, RaysBack, DeltasAre DEF Reach
  <2> QED
    BY <1>3, <1>4, <1>7, <2>1
<1>8. CASE Role(b.cells[m.from]) = "R" /\ Reach(b, m, Rays(b, m.from, RookRays))
  <2>1. m.from \in Rays(b, m.to, RookRays)
    BY <1>2, <1>8, RaysBack, DeltasAre DEF Reach
  <2> QED
    BY <1>3, <1>4, <1>8, <2>1
<1>9. CASE Role(b.cells[m.from]) = "Q" /\ Reach(b, m, Rays(b, m.from, KingDeltas))
  <2>1. m.from \in Rays(b, m.to, KingDeltas)
    BY <1>2, <1>9, RaysBack, DeltasAre DEF Reach
  <2>2. m.from \in Rays(b, m.to, RookRays) \/ m.from \in Rays(b, m.to, BishopRays)
    BY <2>1 DEF Rays, KingDeltas
  <2> QED
    BY <1>3, <1>4, <1>9, <2>2
<1>10. CASE Role(b.cells[m.from]) = "K" /\ Reach(b, m, Beside(m.from, KingDeltas))
  <2>1. m.from \in Beside(m.to, KingDeltas)
    BY <1>2, <1>10, BesideBack, DeltasAre DEF Reach
  <2> QED
    BY <1>3, <1>4, <1>10, <2>1
<1>11. CASE \E c \in Castlings : CastleWay(b, m, c)
  <2>1. \A c \in Castlings : c.to \in c.lane
    BY DEF Castlings
  <2>2. b.cells[m.to] = Empty
    BY <1>11, <2>1 DEF CastleWay
  <2> QED
    BY <1>3, <2>2
<1> QED
  BY <1>1, <1>5, <1>6, <1>7, <1>8, <1>9, <1>10, <1>11 DEF Way

-----------------------------------------------------------------------------
LEMMA MenTell ==
  ASSUME NEW w \in BOOLEAN, NEW v \in BOOLEAN, NEW r \in WhitePieces, NEW q \in WhitePieces, Man(w, r) = Man(v, q)
  PROVE  w = v /\ r = q
<1>1. Man(w, r) \in Of(w) /\ Man(w, r) \in Of(v) /\ r = q
  BY ManIs
<1>2. Man(w, r) \notin Of(~w)
  BY <1>1, Men
<1> QED
  BY <1>1, <1>2

LEMMA CastlingsAre ==
  /\ \A c \in Castlings :
       /\ c.from \in Squares /\ c.to \in Squares /\ c.corner \in Squares /\ c.rookTo \in Squares
       /\ c.to \in c.lane /\ c.rookTo \in c.lane
       /\ FileOf(c.to) - FileOf(c.from) \in {2, -2}
       /\ \E w \in BOOLEAN : c.king = Man(w, "K") /\ c.rook = Man(w, "R")
  /\ \A c, e \in Castlings : c.to = e.to => c = e
<1>1. \A c \in Castlings :
        /\ c.from \in Squares /\ c.to \in Squares /\ c.corner \in Squares /\ c.rookTo \in Squares
        /\ c.to \in c.lane /\ c.rookTo \in c.lane
  BY DEF Castlings, Squares
<1>2. \A c \in Castlings : FileOf(c.to) - FileOf(c.from) \in {2, -2}
  BY DEF Castlings, FileOf
<1>3. \A c \in Castlings : \E w \in BOOLEAN : c.king = Man(w, "K") /\ c.rook = Man(w, "R")
  <2>1. Man(TRUE, "K") = "K" /\ Man(TRUE, "R") = "R" /\ Man(FALSE, "K") = "k" /\ Man(FALSE, "R") = "r"
    BY DEF Man, BlackOf
  <2>2. \A c \in Castlings : (c.king = "K" /\ c.rook = "R") \/ (c.king = "k" /\ c.rook = "r")
    BY DEF Castlings
  <2> QED
    BY <2>1, <2>2
<1>4. \A c, e \in Castlings : c.to = e.to => c = e
  BY DEF Castlings
<1> QED
  BY <1>1, <1>2, <1>3, <1>4

Kings(b) == \A king \in {"K", "k"} : \E s \in Squares : {t \in Squares : b.cells[t] = king} = {s}
Behind(b) == IF b.white THEN b.ep - 8 ELSE b.ep + 8
PawnsInside(b) == \A s \in Squares : b.cells[s] \in {"P", "p"} => RankOf(s) \in 1..6
RightsHome(b) == \A c \in Castlings : c.right \in b.castling => b.cells[c.from] = c.king /\ b.cells[c.corner] = c.rook
PassantFree(b) ==
  b.ep # NoSquare => Behind(b) \in Squares /\ b.cells[b.ep] = Empty /\ b.cells[Behind(b)] = Man(~b.white, "P")

LEMMA SoundIs ==
  ASSUME NEW b
  PROVE  Sound(b) <=> /\ b \in Board /\ Kings(b) /\ ~InCheck(b, ~b.white)
                      /\ PawnsInside(b) /\ RightsHome(b) /\ PassantFree(b)
  BY DEF Sound, Kings, Behind, PawnsInside, RightsHome, PassantFree

LEMMA PassantEmpty ==
  ASSUME NEW b \in Board, PassantFree(b), NEW t \in Squares, t = b.ep
  PROVE  b.cells[t] = Empty /\ Behind(b) \in Squares /\ b.cells[Behind(b)] = Man(~b.white, "P")
  BY DEF PassantFree, Squares, NoSquare

Placed(b, m) == IF m.promotion = NoPromotion THEN b.cells[m.from] ELSE Man(b.white, m.promotion)
Gone(b, m) == Victim(b, m) \cup {c.corner : c \in Castled(b, m)}
Rooks(b, m) == {c.rookTo : c \in Castled(b, m)}

LEMMA AfterIs ==
  ASSUME NEW b \in Board, NEW m \in Moves
  PROVE  LET a == Apply(b, m) IN
         /\ a.white = ~b.white /\ a.castling = RightsAfter(b, m)
         /\ a.ep = IF Role(b.cells[m.from]) = "P" /\ Distance(RankOf(m.from), RankOf(m.to)) = 2
                   THEN (m.from + m.to) \div 2 ELSE NoSquare
         /\ a = [cells |-> a.cells, white |-> a.white, castling |-> a.castling, ep |-> a.ep]
         /\ a.cells = [s \in Squares |-> IF s \in Gone(b, m) THEN Empty
                                         ELSE IF s \in Rooks(b, m) THEN Man(b.white, "R")
                                         ELSE IF s = m.to THEN Placed(b, m)
                                         ELSE IF s = m.from THEN Empty ELSE b.cells[s]]
<1> DEFINE moved == [b.cells EXCEPT ![m.from] = Empty, ![m.to] = Placed(b, m)]
           cells == IF Gone(b, m) = {} THEN moved
                    ELSE [s \in Squares |-> IF s \in Gone(b, m) THEN Empty
                                            ELSE IF s \in Rooks(b, m) THEN Man(b.white, "R") ELSE moved[s]]
           ep == IF Role(b.cells[m.from]) = "P" /\ Distance(RankOf(m.from), RankOf(m.to)) = 2
                 THEN (m.from + m.to) \div 2 ELSE NoSquare
<1>1. Apply(b, m) = [cells |-> cells, white |-> ~b.white, castling |-> RightsAfter(b, m), ep |-> ep]
  BY DEF Apply, Placed, Gone, Rooks
<1>2. m.from \in Squares /\ m.to \in Squares /\ b.cells = [s \in Squares |-> b.cells[s]]
  BY DEF Moves, Board
<1>3. moved = [s \in Squares |-> IF s = m.to THEN Placed(b, m) ELSE IF s = m.from THEN Empty ELSE b.cells[s]]
  BY <1>2
<1>4. Gone(b, m) = {} => Rooks(b, m) = {}
  BY DEF Gone, Rooks
<1>5. cells = [s \in Squares |-> IF s \in Gone(b, m) THEN Empty
                                 ELSE IF s \in Rooks(b, m) THEN Man(b.white, "R")
                                 ELSE IF s = m.to THEN Placed(b, m)
                                 ELSE IF s = m.from THEN Empty ELSE b.cells[s]]
  <2> HIDE DEF moved
  <2>1. CASE Gone(b, m) = {}
    BY <1>3, <1>4, <2>1
  <2>2. CASE Gone(b, m) # {}
    BY <1>3, <2>2
  <2> QED
    BY <2>1, <2>2
<1> HIDE DEF cells, ep
<1> QED
  BY <1>1, <1>5 DEF ep

\* What every move of a sound position does.
Lawful(b, m) ==
  /\ m \in Moves /\ b.cells[m.from] \in Of(b.white) /\ Way(b, m)
  /\ b.cells[m.to] \notin Of(b.white) /\ b.cells[m.to] # Man(~b.white, "K") /\ m.to # m.from
  /\ \A v \in Victim(b, m) : v \in Squares /\ b.cells[v] = Man(~b.white, "P")
  /\ \A c \in Castled(b, m) : c \in Castlings /\ CastleWay(b, m, c) /\ Role(b.cells[m.from]) = "K"
  /\ Placed(b, m) \in Of(b.white)
  /\ Placed(b, m) = Man(b.white, "K") <=> b.cells[m.from] = Man(b.white, "K")
  /\ Placed(b, m) = Man(b.white, "P") => RankOf(m.to) \in 1..6

LEMMA CastlesOnly ==
  ASSUME NEW b \in Board, NEW m \in Moves, Way(b, m), b.cells[m.from] \in Of(b.white),
         Role(b.cells[m.from]) = "K", Distance(FileOf(m.from), FileOf(m.to)) = 2
  PROVE  \E c \in Castlings : CastleWay(b, m, c) /\ Castled(b, m) = {c}
<1>1. m.from \in Squares /\ m.to \in Squares /\ FileOf(m.from) \in 0..7 /\ FileOf(m.to) \in 0..7
  BY SquareIs DEF Moves
<1>2. ~Reach(b, m, Beside(m.from, KingDeltas))
  <2> SUFFICES ASSUME m.to \in Beside(m.from, KingDeltas) PROVE FALSE
    BY DEF Reach
  <2>0. \A d \in KingDeltas : d \in Int \X Int
    BY DeltasAre
  <2>1. PICK d \in KingDeltas : FileOf(m.to) = FileOf(m.from) + d[1]
    BY <1>1, <2>0, BesideIs
  <2>2. d[1] = -1 \/ d[1] = 0 \/ d[1] = 1
    BY DeltasAre
  <2> DEFINE f == FileOf(m.from)
             g == FileOf(m.to)
  <2>3. f \in 0..7 /\ g \in 0..7 /\ (g = f - 1 \/ g = f \/ g = f + 1) /\ Distance(f, g) = 2
    BY <1>1, <2>1, <2>2
  <2> HIDE DEF f, g
  <2> QED
    BY <2>3 DEF Distance
<1>3. PICK c \in Castlings : CastleWay(b, m, c)
  BY <1>2 DEF Way
<1>4. Castled(b, m) = {e \in Castlings : e.to = m.to}
  BY DEF Castled
<1>5. Castled(b, m) = {c}
  BY <1>3, <1>4, CastlingsAre DEF CastleWay
<1> QED
  BY <1>3, <1>5

LEMMA MovesLawful == ASSUME NEW b, Sound(b), NEW m \in PseudoLegal(b) PROVE Lawful(b, m)
<1>1. b \in Board /\ ~InCheck(b, ~b.white) /\ PawnsInside(b) /\ PassantFree(b) /\ b.white \in BOOLEAN
  BY SoundIs DEF Board
<1>2. m \in Moves /\ b.cells[m.from] \in Of(b.white) /\ Way(b, m)
  BY <1>1, MovesAre
<1>3. m.from \in Squares /\ m.to \in Squares
  BY <1>2 DEF Moves
<1>4. /\ Role(b.cells[m.from]) \in WhitePieces /\ b.cells[m.from] = Man(b.white, Role(b.cells[m.from]))
      /\ Empty \notin Of(b.white)
      /\ \A p \in Of(~b.white) : p \notin Of(b.white)
  <2>1. Role(b.cells[m.from]) \in WhitePieces /\ b.cells[m.from] = Man(b.white, Role(b.cells[m.from]))
    BY <1>1, <1>2, Men
  <2>2. \A p \in Of(~b.white) : p \notin Of(~(~b.white))
    BY <1>1, Men
  <2>3. Empty \notin Of(b.white)
    BY <1>1, Men
  <2> QED
    BY <1>1, <2>1, <2>2, <2>3
<1>5. b.cells[m.to] \notin Of(b.white)
  <2>1. CASE PawnWay(b, m)
    <3>1. b.cells[m.to] = Empty \/ b.cells[m.to] \in Of(~b.white)
      BY <1>1, <1>3, <2>1, PassantEmpty DEF PawnWay, PawnPush, PawnJump, PawnCapture, Takes
    <3> QED
      BY <1>4, <3>1
  <2>2. CASE \E c \in Castlings : CastleWay(b, m, c)
    <3>1. b.cells[m.to] = Empty
      BY <2>2, CastlingsAre DEF CastleWay
    <3> QED
      BY <1>4, <3>1
  <2>3. CASE b.cells[m.to] \notin Of(b.white)
    BY <2>3
  <2> QED
    BY <1>2, <2>1, <2>2, <2>3 DEF Way, Reach
<1>6. b.cells[m.to] # Man(~b.white, "K")
  <2> SUFFICES ASSUME b.cells[m.to] = Man(~b.white, "K") PROVE FALSE
    OBVIOUS
  <2>1. b.cells[m.to] \in Of(~b.white) /\ b.cells[m.to] # Empty
    <3>1. Man(~b.white, "K") \in Of(~b.white)
      BY <1>1, ManIs DEF WhitePieces
    <3> QED
      BY <1>1, <3>1, Men
  <2>2. m.to # b.ep
    BY <1>1, <1>3, <2>1, PassantEmpty
  <2>3. Attacked(b, b.white, m.to)
    BY <1>1, <2>1, <2>2, CaptureAttacks
  <2>4. b.white = ~(~b.white)
    BY <1>1
  <2> QED
    BY <1>1, <1>3, <2>3, <2>4 DEF InCheck
<1>7. m.to # m.from
  BY <1>2, <1>5
<1>8. \A v \in Victim(b, m) : v \in Squares /\ b.cells[v] = Man(~b.white, "P")
  <2> SUFFICES ASSUME NEW v \in Victim(b, m) PROVE v \in Squares /\ b.cells[v] = Man(~b.white, "P")
    OBVIOUS
  <2>1. m.to = b.ep /\ v = Behind(b)
    BY DEF Victim, Behind
  <2> QED
    BY <1>1, <1>3, <2>1, PassantEmpty
<1>9. \A c \in Castled(b, m) : c \in Castlings /\ CastleWay(b, m, c) /\ Role(b.cells[m.from]) = "K"
  <2> SUFFICES ASSUME NEW c \in Castled(b, m)
               PROVE c \in Castlings /\ CastleWay(b, m, c) /\ Role(b.cells[m.from]) = "K"
    OBVIOUS
  <2>1. Role(b.cells[m.from]) = "K" /\ Distance(FileOf(m.from), FileOf(m.to)) = 2
    BY DEF Castled
  <2> QED
    BY <1>1, <1>2, <2>1, CastlesOnly
<1>10. m.promotion # NoPromotion => /\ Role(b.cells[m.from]) = "P" /\ m.promotion \in WhitePieces \ {"K", "P"}
                                    /\ PawnWay(b, m)
  <2>1. m.promotion # NoPromotion => m.promotion \in WhitePieces \ {"K", "P"}
    BY <1>2 DEF Moves, Promotions, WhitePieces
  <2> QED
    BY <1>2, <2>1 DEF Way, Reach, CastleWay
<1>11. Placed(b, m) \in Of(b.white)
  BY <1>1, <1>2, <1>10, ManIs DEF Placed
<1>12. Placed(b, m) = Man(b.white, "K") <=> b.cells[m.from] = Man(b.white, "K")
  <2>1. CASE m.promotion = NoPromotion
    BY <2>1 DEF Placed
  <2>2. CASE m.promotion # NoPromotion
    <3>1. Placed(b, m) = Man(b.white, m.promotion) /\ b.cells[m.from] = Man(b.white, "P")
      BY <1>4, <1>10, <2>2 DEF Placed
    <3>2. "K" \in WhitePieces /\ "P" \in WhitePieces
      BY DEF WhitePieces
    <3> QED
      BY <1>1, <1>10, <2>2, <3>1, <3>2, MenTell
  <2> QED
    BY <2>1, <2>2
<1>13. Placed(b, m) = Man(b.white, "P") => RankOf(m.to) \in 1..6
  <2> SUFFICES ASSUME Placed(b, m) = Man(b.white, "P") PROVE RankOf(m.to) \in 1..6
    OBVIOUS
  <2>1. "P" \in WhitePieces
    BY DEF WhitePieces
  <2>2. m.promotion = NoPromotion
    BY <1>1, <1>10, <2>1, MenTell DEF Placed
  <2>3. b.cells[m.from] = Man(b.white, "P")
    BY <2>2 DEF Placed
  <2>4. Role(b.cells[m.from]) = "P"
    BY <1>1, <2>1, <2>3, ManIs
  <2>5. PawnWay(b, m) /\ RankOf(m.to) # (IF b.white THEN 7 ELSE 0)
    <3>1. PawnWay(b, m)
      BY <1>2, <2>4 DEF Way
    <3>2. NoPromotion \notin Promotions
      BY DEF NoPromotion, Promotions
    <3> QED
      BY <2>2, <3>1, <3>2 DEF PawnWay
  <2>6. b.cells[m.from] \in {"P", "p"}
    BY <2>3 DEF Man, BlackOf
  <2>7. RankOf(m.from) \in 1..6
    BY <1>1, <1>3, <2>6 DEF PawnsInside
  <2>8. RankOf(m.to) \in 0..7
    BY <1>3, SquareIs
  <2>9. RankOf(m.to) = RankOf(m.from) + Forward(b) \/ RankOf(m.to) = RankOf(m.from) + 2 * Forward(b)
    BY <1>1, <1>2, <2>5, <2>7, PawnGoes DEF PawnWay
  <2> QED
    BY <2>5, <2>7, <2>8, <2>9 DEF Forward
<1> QED
  BY <1>2, <1>5, <1>6, <1>7, <1>8, <1>9, <1>11, <1>12, <1>13 DEF Lawful

\* The two sides.
LEMMA Sides ==
  ASSUME NEW w \in BOOLEAN
  PROVE  /\ Empty \notin Of(w) /\ Empty \notin Of(~w)
         /\ \A r \in WhitePieces : /\ Man(w, r) \in Of(w) /\ Man(w, r) \notin Of(~w) /\ Man(w, r) # Empty
                                   /\ Man(~w, r) \in Of(~w) /\ Man(~w, r) \notin Of(w) /\ Man(~w, r) # Empty
         /\ \A r, q \in WhitePieces : /\ Man(w, r) # Man(~w, q)
                                      /\ r # q => Man(w, r) # Man(w, q) /\ Man(~w, r) # Man(~w, q)
         /\ "K" \in WhitePieces /\ "R" \in WhitePieces /\ "P" \in WhitePieces
<1>1. CASE w = TRUE
  BY <1>1 DEF Of, Man, WhitePieces, BlackPieces, BlackOf, Empty
<1>2. CASE w = FALSE
  BY <1>2 DEF Of, Man, WhitePieces, BlackPieces, BlackOf, Empty
<1> QED
  BY <1>1, <1>2

\* The cells after a move, for each kind of square.
LEMMA CellsAre ==
  ASSUME NEW b, Sound(b), NEW m \in PseudoLegal(b), NEW s \in Squares
  PROVE  LET a == Apply(b, m) IN
         /\ s \in Victim(b, m) => a.cells[s] = Empty /\ b.cells[s] = Man(~b.white, "P")
         /\ \A c \in Castled(b, m) :
              /\ s = c.corner => a.cells[s] = Empty /\ b.cells[s] = Man(b.white, "R")
              /\ s = c.rookTo => a.cells[s] = Man(b.white, "R") /\ b.cells[s] = Empty
         /\ s = m.to => a.cells[s] = Placed(b, m)
         /\ s = m.from => a.cells[s] = Empty
         /\ \/ s \in Victim(b, m) \/ s = m.to \/ s = m.from
            \/ \E c \in Castled(b, m) : s \in {c.corner, c.rookTo}
            \/ a.cells[s] = b.cells[s]
<1> DEFINE a == Apply(b, m)
<1>1. b \in Board /\ b.white \in BOOLEAN /\ Lawful(b, m) /\ m \in Moves
  <2>1. b \in Board
    BY SoundIs
  <2> QED
    BY <2>1, MovesLawful DEF Lawful, Board
<1>2. a.cells[s] = IF s \in Gone(b, m) THEN Empty
                   ELSE IF s \in Rooks(b, m) THEN Man(b.white, "R")
                   ELSE IF s = m.to THEN Placed(b, m)
                   ELSE IF s = m.from THEN Empty ELSE b.cells[s]
  <2>1. a.cells = [x \in Squares |-> IF x \in Gone(b, m) THEN Empty
                                     ELSE IF x \in Rooks(b, m) THEN Man(b.white, "R")
                                     ELSE IF x = m.to THEN Placed(b, m)
                                     ELSE IF x = m.from THEN Empty ELSE b.cells[x]]
    BY <1>1, AfterIs
  <2> QED
    BY <2>1
<1> HIDE DEF a
<1>3. /\ Man(b.white, "R") \in Of(b.white) /\ Man(b.white, "K") \in Of(b.white) /\ "K" \in WhitePieces
      /\ Man(b.white, "R") # Empty
      /\ Empty \notin Of(b.white) /\ Man(~b.white, "P") \notin Of(b.white)
  BY <1>1, Sides
<1>4. ASSUME NEW c \in Castled(b, m)
      PROVE  /\ c \in Castlings /\ CastleWay(b, m, c) /\ b.cells[c.from] = Man(b.white, "K")
             /\ b.cells[c.corner] = Man(b.white, "R") /\ b.cells[c.rookTo] = Empty
             /\ c.rookTo # m.to /\ m.to # c.corner
  <2>1. c \in Castlings /\ CastleWay(b, m, c)
    BY <1>1 DEF Lawful
  <2>2. PICK w \in BOOLEAN : c.king = Man(w, "K") /\ c.rook = Man(w, "R")
    BY <2>1, CastlingsAre
  <2>3. Man(w, "K") \in Of(b.white) /\ Man(w, "K") \in Of(w)
    BY <1>1, <1>3, <2>1, <2>2, ManIs DEF CastleWay, Lawful
  <2>4. w = b.white
    BY <1>1, <2>3, Men
  <2>5. c.rookTo # c.to
    BY <2>1 DEF Castlings
  <2>6. b.cells[c.rookTo] = Empty /\ b.cells[c.to] = Empty
    BY <2>1, CastlingsAre DEF CastleWay
  <2> QED
    BY <1>3, <2>1, <2>2, <2>4, <2>5, <2>6 DEF CastleWay
<1>5. Castled(b, m) # {} => Victim(b, m) = {}
  BY <1>1 DEF Lawful, Victim
<1>6. \A c, e \in Castled(b, m) : c = e
  BY <1>4, CastlingsAre DEF CastleWay
<1>7. s \in Victim(b, m) => a.cells[s] = Empty /\ b.cells[s] = Man(~b.white, "P")
  BY <1>1, <1>2 DEF Lawful, Gone
<1>8. ASSUME NEW c \in Castled(b, m), s = c.corner
      PROVE a.cells[s] = Empty /\ b.cells[s] = Man(b.white, "R")
  BY <1>2, <1>4, <1>8 DEF Gone
<1>9. ASSUME NEW c \in Castled(b, m), s = c.rookTo
      PROVE a.cells[s] = Man(b.white, "R") /\ b.cells[s] = Empty
  <2>1. s \notin Victim(b, m)
    BY <1>5, <1>9
  <2>2. ASSUME NEW e \in Castled(b, m), s = e.corner PROVE FALSE
    BY <1>3, <1>4, <1>9, <2>2
  <2>3. s \notin Gone(b, m) /\ s \in Rooks(b, m)
    BY <1>9, <2>1, <2>2 DEF Gone, Rooks
  <2> QED
    BY <1>2, <1>4, <1>9, <2>3
<1>10. ASSUME s = m.to PROVE a.cells[s] = Placed(b, m)
  <2>1. s \notin Victim(b, m)
    BY <1>10 DEF Victim, Forward, Moves, Squares
  <2>2. s \notin Gone(b, m) /\ s \notin Rooks(b, m)
    BY <1>4, <1>10, <2>1 DEF Gone, Rooks
  <2> QED
    BY <1>2, <1>10, <2>2
<1>11. ASSUME s = m.from PROVE a.cells[s] = Empty
  <2>1. s # m.to /\ b.cells[s] # Empty
    BY <1>1, <1>3, <1>11 DEF Lawful
  <2>2. s \notin Rooks(b, m)
    BY <1>4, <2>1 DEF Rooks
  <2> QED
    BY <1>2, <1>11, <2>1, <2>2
<1>12. \/ s \in Victim(b, m) \/ s = m.to \/ s = m.from
       \/ \E c \in Castled(b, m) : s \in {c.corner, c.rookTo}
       \/ a.cells[s] = b.cells[s]
  BY <1>2 DEF Gone, Rooks
<1> QED
  BY <1>7, <1>8, <1>9, <1>10, <1>11, <1>12 DEF a

\* A king stands where it stood, or where it has moved to.
LEMMA KingsStay == ASSUME NEW b, Sound(b), NEW m \in PseudoLegal(b) PROVE Kings(Apply(b, m))
<1> DEFINE a == Apply(b, m)
           w == b.white
<1>1. b \in Board /\ w \in BOOLEAN /\ Lawful(b, m) /\ Kings(b) /\ m.from \in Squares /\ m.to \in Squares
  <2>1. b \in Board /\ Kings(b)
    BY SoundIs
  <2> QED
    BY <2>1, MovesLawful DEF Lawful, Board, Moves
<1>2. {"K", "k"} = {Man(w, "K"), Man(~w, "K")}
  <2>1. Man(TRUE, "K") = "K" /\ Man(FALSE, "K") = "k"
    BY DEF Man, BlackOf
  <2> QED
    BY <1>1, <2>1
<1>3. /\ Man(w, "K") # Man(~w, "K") /\ Man(w, "K") # Man(w, "R") /\ Man(w, "K") # Man(~w, "P")
      /\ Man(~w, "K") # Man(w, "R") /\ Man(~w, "K") # Man(~w, "P")
      /\ Man(w, "K") # Empty /\ Man(~w, "K") # Empty /\ Man(w, "K") \in Of(w) /\ Man(~w, "K") \notin Of(w)
  BY <1>1, Sides
<1> HIDE DEF a, w
<1>4. ASSUME NEW s \in Squares
      PROVE  /\ a.cells[s] = Man(~w, "K") <=> b.cells[s] = Man(~w, "K")
             /\ s # m.from /\ s # m.to => (a.cells[s] = Man(w, "K") <=> b.cells[s] = Man(w, "K"))
             /\ s = m.from => a.cells[s] # Man(w, "K")
             /\ s = m.to => b.cells[s] # Man(w, "K")
                            /\ (a.cells[s] = Man(w, "K") <=> b.cells[m.from] = Man(w, "K"))
  <2>1. /\ s \in Victim(b, m) => a.cells[s] = Empty /\ b.cells[s] = Man(~w, "P")
        /\ \A c \in Castled(b, m) :
             /\ s = c.corner => a.cells[s] = Empty /\ b.cells[s] = Man(w, "R")
             /\ s = c.rookTo => a.cells[s] = Man(w, "R") /\ b.cells[s] = Empty
        /\ s = m.to => a.cells[s] = Placed(b, m)
        /\ s = m.from => a.cells[s] = Empty
        /\ \/ s \in Victim(b, m) \/ s = m.to \/ s = m.from
           \/ \E c \in Castled(b, m) : s \in {c.corner, c.rookTo}
           \/ a.cells[s] = b.cells[s]
    BY CellsAre DEF a, w
  <2>2. /\ b.cells[m.from] \in Of(w) /\ b.cells[m.to] \notin Of(w) /\ b.cells[m.to] # Man(~w, "K")
        /\ Placed(b, m) \in Of(w) /\ (Placed(b, m) = Man(w, "K") <=> b.cells[m.from] = Man(w, "K"))
    BY <1>1 DEF Lawful, w
  <2>3. CASE s = m.to
    BY <1>3, <2>1, <2>2, <2>3
  <2>4. CASE s = m.from
    BY <1>3, <2>1, <2>2, <2>4
  <2>5. CASE s # m.to /\ s # m.from
    BY <1>3, <2>1, <2>5
  <2> QED
    BY <2>3, <2>4, <2>5
<1>5. ASSUME NEW king \in {"K", "k"} PROVE \E s \in Squares : {t \in Squares : a.cells[t] = king} = {s}
  <2>1. PICK s \in Squares : {t \in Squares : b.cells[t] = king} = {s}
    BY <1>1 DEF Kings
  <2>2. b.cells[s] = king /\ \A t \in Squares : b.cells[t] = king => t = s
    BY <2>1
  <2>3. CASE king = Man(~w, "K")
    BY <1>4, <2>1, <2>3
  <2>4. CASE king = Man(w, "K") /\ s = m.from
    <3>1. \A t \in Squares : a.cells[t] = king <=> t = m.to
      BY <1>4, <2>2, <2>4
    <3> QED
      BY <1>1, <3>1
  <2>5. CASE king = Man(w, "K") /\ s # m.from
    <3>1. s # m.to /\ b.cells[m.from] # king
      BY <1>1, <1>4, <2>2, <2>5
    <3>2. \A t \in Squares : a.cells[t] = king <=> t = s
      BY <1>4, <2>2, <2>5, <3>1
    <3> QED
      BY <3>2
  <2> QED
    BY <1>2, <2>3, <2>4, <2>5
<1> QED
  BY <1>5 DEF Kings, a

LEMMA PawnsStayInside == ASSUME NEW b, Sound(b), NEW m \in PseudoLegal(b) PROVE PawnsInside(Apply(b, m))
<1> DEFINE a == Apply(b, m)
           w == b.white
<1>1. b \in Board /\ w \in BOOLEAN /\ Lawful(b, m) /\ PawnsInside(b)
  <2>1. b \in Board /\ PawnsInside(b)
    BY SoundIs
  <2> QED
    BY <2>1, MovesLawful DEF Board
<1>2. {"P", "p"} = {Man(w, "P"), Man(~w, "P")} /\ Empty \notin {"P", "p"} /\ Man(w, "R") \notin {"P", "p"}
      /\ "p" \notin WhitePieces /\ "P" \notin BlackPieces
  BY <1>1 DEF Man, BlackOf, Empty, WhitePieces, BlackPieces
<1>3. Man(~w, "P") \notin Of(w)
  BY <1>1 DEF Man, BlackOf, Of, WhitePieces, BlackPieces
<1> HIDE DEF a, w
<1>4. ASSUME NEW s \in Squares, a.cells[s] \in {"P", "p"} PROVE RankOf(s) \in 1..6
  <2>1. /\ s \in Victim(b, m) => a.cells[s] = Empty
        /\ \A c \in Castled(b, m) : /\ s = c.corner => a.cells[s] = Empty
                                    /\ s = c.rookTo => a.cells[s] = Man(w, "R")
        /\ s = m.to => a.cells[s] = Placed(b, m)
        /\ s = m.from => a.cells[s] = Empty
        /\ \/ s \in Victim(b, m) \/ s = m.to \/ s = m.from
           \/ \E c \in Castled(b, m) : s \in {c.corner, c.rookTo}
           \/ a.cells[s] = b.cells[s]
    BY CellsAre DEF a, w
  <2>2. CASE a.cells[s] = b.cells[s]
    BY <1>1, <1>4, <2>2 DEF PawnsInside
  <2>3. CASE s = m.to
    <3>1. Placed(b, m) \in Of(w) /\ (Placed(b, m) = Man(w, "P") => RankOf(m.to) \in 1..6)
      BY <1>1 DEF Lawful, w
    <3> QED
      BY <1>2, <1>3, <1>4, <2>1, <2>3, <3>1
  <2> QED
    BY <1>2, <1>4, <2>1, <2>2, <2>3
<1> QED
  BY <1>4 DEF PawnsInside, a

\* A right that is kept has its king and its rook at home.
LEMMA RightsStayHome == ASSUME NEW b, Sound(b), NEW m \in PseudoLegal(b) PROVE RightsHome(Apply(b, m))
<1> DEFINE a == Apply(b, m)
           w == b.white
<1>1. b \in Board /\ w \in BOOLEAN /\ Lawful(b, m) /\ RightsHome(b) /\ m \in Moves
  <2>1. b \in Board /\ RightsHome(b)
    BY SoundIs
  <2> QED
    BY <2>1, MovesLawful DEF Board, Lawful
<1>2. a.castling = RightsAfter(b, m)
  BY <1>1, AfterIs
<1> HIDE DEF a
<1>3. ASSUME NEW c \in Castlings, c.right \in a.castling
      PROVE  a.cells[c.from] = c.king /\ a.cells[c.corner] = c.rook
  <2>1. c.right \in b.castling /\ b.cells[m.from] # c.king /\ c.corner # m.from /\ c.corner # m.to
    BY <1>2, <1>3 DEF RightsAfter
  <2>2. b.cells[c.from] = c.king /\ b.cells[c.corner] = c.rook
    BY <1>1, <2>1 DEF RightsHome
  <2>3. c.from \in Squares /\ c.corner \in Squares
    BY CastlingsAre
  <2>4. PICK v \in BOOLEAN : c.king = Man(v, "K") /\ c.rook = Man(v, "R")
    BY CastlingsAre
  <2>5. v = w \/ v = ~w
    BY <1>1
  <2>6. b.cells[m.to] \notin Of(w) /\ b.cells[m.to] # Man(~w, "K")
    BY <1>1 DEF Lawful, w
  <2>7. c.from # m.to /\ c.from # m.from
    BY <1>1, <2>1, <2>2, <2>4, <2>5, <2>6, Sides
  <2>8. ASSUME NEW e \in Castled(b, m) PROVE v = ~w
    <3>1. CastleWay(b, m, e) /\ Role(b.cells[m.from]) = "K" /\ b.cells[m.from] \in Of(w)
      BY <1>1 DEF Lawful, w
    <3>2. b.cells[m.from] = Man(w, "K")
      BY <1>1, <3>1, Men
    <3> QED
      BY <2>1, <2>4, <2>5, <3>2
  <2>9. ASSUME NEW s \in Squares, s # m.from, s # m.to, b.cells[s] = Man(v, "K") \/ b.cells[s] = Man(v, "R")
        PROVE  a.cells[s] = b.cells[s]
    <3>1. /\ s \in Victim(b, m) => b.cells[s] = Man(~w, "P")
          /\ \A e \in Castled(b, m) : /\ s = e.corner => b.cells[s] = Man(w, "R")
                                      /\ s = e.rookTo => b.cells[s] = Empty
          /\ \/ s \in Victim(b, m) \/ s = m.to \/ s = m.from
             \/ \E e \in Castled(b, m) : s \in {e.corner, e.rookTo}
             \/ a.cells[s] = b.cells[s]
      BY CellsAre DEF a, w
    <3>2. s \notin Victim(b, m)
      BY <1>1, <2>5, <2>9, <3>1, Sides
    <3>3. ASSUME NEW e \in Castled(b, m), s \in {e.corner, e.rookTo} PROVE FALSE
      <4>1. v = ~w
        BY <2>8
      <4>2. b.cells[s] = Man(~w, "K") \/ b.cells[s] = Man(~w, "R")
        BY <2>9, <4>1
      <4>3. b.cells[s] = Man(w, "R") \/ b.cells[s] = Empty
        BY <3>1, <3>3
      <4> QED
        BY <1>1, <4>2, <4>3, Sides
    <3> QED
      BY <2>9, <3>1, <3>2, <3>3
  <2> QED
    BY <2>1, <2>2, <2>3, <2>4, <2>7, <2>9
<1> QED
  BY <1>3 DEF RightsHome, a

\* A pawn that has just jumped stands before the square it has passed.
LEMMA PassantStaysFree == ASSUME NEW b, Sound(b), NEW m \in PseudoLegal(b) PROVE PassantFree(Apply(b, m))
<1> DEFINE a == Apply(b, m)
           w == b.white
<1>1. /\ b \in Board /\ w \in BOOLEAN /\ Lawful(b, m) /\ PawnsInside(b) /\ PassantFree(b) /\ m \in Moves
      /\ m.from \in Squares /\ m.to \in Squares
  <2>1. b \in Board /\ PawnsInside(b) /\ PassantFree(b)
    BY SoundIs
  <2> QED
    BY <2>1, MovesLawful DEF Board, Lawful, Moves
<1>2. /\ a.white = ~b.white
      /\ a.ep = IF Role(b.cells[m.from]) = "P" /\ Distance(RankOf(m.from), RankOf(m.to)) = 2
                THEN (m.from + m.to) \div 2 ELSE NoSquare
  BY <1>1, AfterIs
<1> HIDE DEF a
<1> SUFFICES ASSUME a.ep # NoSquare
             PROVE  Behind(a) \in Squares /\ a.cells[a.ep] = Empty /\ a.cells[Behind(a)] = Man(~a.white, "P")
  BY DEF PassantFree, a
<1>3. Role(b.cells[m.from]) = "P" /\ Distance(RankOf(m.from), RankOf(m.to)) = 2 /\ a.ep = (m.from + m.to) \div 2
  BY <1>2
<1>4. PawnWay(b, m) /\ b.cells[m.from] = Man(w, "P")
  BY <1>1, <1>3, Men DEF Lawful, Way, w
<1>5. RankOf(m.from) \in 1..6
  <2>1. b.cells[m.from] \in {"P", "p"}
    BY <1>4 DEF Man, BlackOf
  <2> QED
    BY <1>1, <2>1 DEF PawnsInside
<1>6. PawnJump(b, m) /\ RankOf(m.to) = RankOf(m.from) + 2 * Forward(b) /\ a.ep = m.from + 8 * Forward(b)
  <2>1. RankOf(m.to) \in 0..7
    BY <1>1, SquareIs
  <2>2. ~PawnPush(b, m) /\ ~PawnCapture(b, m)
    <3> SUFFICES ASSUME RankOf(m.to) = RankOf(m.from) + Forward(b) PROVE FALSE
      BY <1>1, <1>4, <1>5, PawnGoes
    <3> DEFINE f == RankOf(m.from)
               g == RankOf(m.to)
    <3>1. f \in 1..6 /\ g \in 0..7 /\ (g = f + 1 \/ g = f - 1) /\ Distance(f, g) = 2
      BY <1>3, <1>5, <2>1 DEF Forward
    <3> HIDE DEF f, g
    <3> QED
      BY <3>1 DEF Distance
  <2> QED
    BY <1>1, <1>3, <1>4, <1>5, <2>2, PawnGoes DEF PawnWay
<1>7. /\ a.ep \in Squares /\ b.cells[a.ep] = Empty /\ m.to = m.from + 16 * Forward(b)
      /\ RankOf(m.from) = IF b.white THEN 1 ELSE 6
  BY <1>6 DEF PawnJump
<1>8. Behind(a) = m.to
  <2>1. CASE b.white = TRUE
    <3>1. a.white = FALSE
      BY <1>2, <2>1
    <3>2. Behind(a) = a.ep + 8 /\ Forward(b) = 1
      BY <2>1, <3>1 DEF Behind, Forward
    <3> QED
      BY <1>1, <1>6, <1>7, <3>2 DEF Squares
  <2>2. CASE b.white = FALSE
    <3>1. a.white = TRUE
      BY <1>2, <2>2
    <3>2. Behind(a) = a.ep - 8 /\ Forward(b) = -1
      BY <2>2, <3>1 DEF Behind, Forward
    <3> QED
      BY <1>1, <1>6, <1>7, <3>2 DEF Squares
  <2> QED
    BY <1>1, <2>1, <2>2
<1>9. a.ep # m.to /\ a.ep # m.from
  BY <1>1, <1>6, <1>7 DEF Forward, Squares
<1>10. Castled(b, m) = {}
  BY <1>3 DEF Castled
<1>11. a.cells[a.ep] = Empty
  <2> DEFINE s == a.ep
  <2>1. /\ s \in Victim(b, m) => a.cells[s] = Empty
        /\ \/ s \in Victim(b, m) \/ s = m.to \/ s = m.from
           \/ \E c \in Castled(b, m) : s \in {c.corner, c.rookTo}
           \/ a.cells[s] = b.cells[s]
    BY <1>7, CellsAre DEF a
  <2> QED
    BY <1>7, <1>9, <1>10, <2>1
<1>12. a.cells[m.to] = Man(w, "P")
  <2>1. a.cells[m.to] = Placed(b, m)
    BY <1>1, CellsAre DEF a
  <2>2. RankOf(m.to) # (IF b.white THEN 7 ELSE 0)
    BY <1>6, <1>7 DEF Forward
  <2>3. m.promotion = NoPromotion
    BY <1>4, <2>2 DEF PawnWay
  <2> QED
    BY <1>4, <2>1, <2>3 DEF Placed
<1>13. a.cells[m.to] = Man(~a.white, "P")
  <2>1. CASE w = TRUE
    BY <1>2, <1>12, <2>1 DEF Man
  <2>2. CASE w = FALSE
    BY <1>2, <1>12, <2>2 DEF Man
  <2> QED
    BY <1>1, <2>1, <2>2
<1> QED
  BY <1>1, <1>8, <1>11, <1>13

LEMMA AfterTyped == ASSUME NEW b, Sound(b), NEW m \in PseudoLegal(b) PROVE Apply(b, m) \in Board
<1> DEFINE a == Apply(b, m)
<1>1. b \in Board /\ b.white \in BOOLEAN /\ Lawful(b, m) /\ m \in Moves /\ m.from \in Squares /\ m.to \in Squares
  <2>1. b \in Board
    BY SoundIs
  <2> QED
    BY <2>1, MovesLawful DEF Board, Lawful, Moves
<1>2. /\ a.white = ~b.white /\ a.castling = RightsAfter(b, m)
      /\ a.ep = IF Role(b.cells[m.from]) = "P" /\ Distance(RankOf(m.from), RankOf(m.to)) = 2
                THEN (m.from + m.to) \div 2 ELSE NoSquare
      /\ a = [cells |-> a.cells, white |-> a.white, castling |-> a.castling, ep |-> a.ep]
      /\ a.cells = [s \in Squares |-> IF s \in Gone(b, m) THEN Empty
                                      ELSE IF s \in Rooks(b, m) THEN Man(b.white, "R")
                                      ELSE IF s = m.to THEN Placed(b, m)
                                      ELSE IF s = m.from THEN Empty ELSE b.cells[s]]
  BY <1>1, AfterIs
<1> HIDE DEF a
<1>3. /\ Placed(b, m) \in WhitePieces \cup BlackPieces /\ Man(b.white, "R") \in WhitePieces \cup BlackPieces
      /\ \A s \in Squares : b.cells[s] \in WhitePieces \cup BlackPieces \cup {Empty}
  BY <1>1, Men, Sides DEF Lawful, Board
<1>4. a.cells \in [Squares -> WhitePieces \cup BlackPieces \cup {Empty}]
  BY <1>2, <1>3
<1>5. a.castling \in SUBSET {"K", "Q", "k", "q"}
  BY <1>1, <1>2 DEF RightsAfter, Board
<1>6. a.ep \in Squares \cup {NoSquare}
  <2>1. (m.from + m.to) \div 2 \in Squares
    BY <1>1 DEF Squares
  <2> QED
    BY <1>2, <2>1
<1>7. a.white \in BOOLEAN
  BY <1>2
<1> QED
  BY <1>2, <1>4, <1>5, <1>6, <1>7 DEF Board, a

\* Every legal move leads from a sound position to a sound one.
LEMMA LegalMovesKeepSound == ASSUME NEW b, Sound(b), NEW m \in LegalMoves(b) PROVE Sound(Apply(b, m))
<1>1. m \in PseudoLegal(b) /\ ~InCheck(Apply(b, m), b.white)
  BY DEF LegalMoves
<1>2. b \in Board /\ b.white \in BOOLEAN
  BY SoundIs DEF Board
<1>3. m \in Moves
  BY <1>1, <1>2, MovesAre
<1>4. (~Apply(b, m).white) = b.white
  <2>1. Apply(b, m).white = ~b.white
    BY <1>2, <1>3, AfterIs
  <2> QED
    BY <1>2, <2>1
<1>5. ~InCheck(Apply(b, m), ~Apply(b, m).white)
  <2> DEFINE a == Apply(b, m)
             v == ~a.white
  <2>1. v = b.white
    BY <1>4
  <2>2. ~InCheck(a, b.white)
    BY <1>1
  <2> HIDE DEF a, v
  <2>3. ~InCheck(a, v)
    BY <2>1, <2>2
  <2> QED
    BY <2>3 DEF a, v
<1> QED
  BY <1>1, <1>5, AfterTyped, KingsStay, PawnsStayInside, RightsStayHome, PassantStaysFree, SoundIs

LEMMA LegalTyped == ASSUME NEW b PROVE LegalMoves(b) \subseteq Moves
<1>1. \A s \in Squares : b.cells[s] \in Of(b.white) => MovesFrom(b, s) \subseteq Moves
  BY MovesTyped DEF Of
<1> QED
  BY <1>1 DEF LegalMoves, PseudoLegal

-----------------------------------------------------------------------------
\* The tree of a game: each node but the first is a child of one of them, under
\* a legal move, and no move is tried twice at a node.
Grown(p) == kids[p] \in Seq(open[p]) /\ \A i, j \in DOMAIN kids[p] : kids[p][i] = kids[p][j] => i = j
ChildOf(q, p) == \E i \in DOMAIN kids[p] : q = Append(p, kids[p][i])
Positioned(p) == Sound(boards[p]) /\ open[p] = LegalMoves(boards[p])
Rooted(p) == \A i \in DOMAIN kids[p] : /\ Append(p, kids[p][i]) \in Nodes
                                       /\ boards[Append(p, kids[p][i])] = Apply(boards[p], kids[p][i])

TreeOK ==
  /\ DOMAIN kids = Nodes /\ DOMAIN boards = Nodes
  /\ <<>> \in Nodes /\ Nodes \subseteq Seq(Moves)
  /\ \A p \in Nodes : Grown(p) /\ Positioned(p) /\ Rooted(p)
  /\ \A q \in Nodes : q = <<>> \/ \E p \in Nodes : ChildOf(q, p)

Tip == phase \in {"mainline", "branch"} => kids[cursor] = <<>>

TreeInv == ConservedInv /\ phase \in Phases /\ TreeOK /\ Tip

\* What a move played at a node does to the tree.
Growth(p, m) ==
  /\ TreeOK' /\ Nodes' = Nodes \cup {Append(p, m)} /\ Append(p, m) \notin Nodes /\ cursor' = Append(p, m)
  /\ kids'[p] = Append(kids[p], m) /\ kids'[Append(p, m)] = <<>>
  /\ \A q \in Nodes : boards'[q] = boards[q] /\ open'[q] = open[q] /\ (q # p => kids'[q] = kids[q])

LEMMA AppendTells ==
  ASSUME NEW S, NEW p \in Seq(S), NEW q \in Seq(S), NEW m, NEW n, Append(p, m) = Append(q, n)
  PROVE  p = q /\ m = n
<1>1. /\ Len(Append(p, m)) = Len(p) + 1 /\ Append(p, m)[Len(p) + 1] = m
      /\ \A i \in 1..Len(p) : Append(p, m)[i] = p[i]
  OBVIOUS
<1>2. /\ Len(Append(q, n)) = Len(q) + 1 /\ Append(q, n)[Len(q) + 1] = n
      /\ \A i \in 1..Len(q) : Append(q, n)[i] = q[i]
  OBVIOUS
<1>3. Len(p) = Len(q) /\ Len(p) \in Nat /\ Len(q) \in Nat
  BY <1>1, <1>2
<1>4. \A i \in 1..Len(p) : p[i] = q[i]
  BY <1>1, <1>2, <1>3
<1> QED
  BY <1>1, <1>2, <1>3, <1>4

LEMMA AppendNotEmpty == ASSUME NEW S, NEW p \in Seq(S), NEW m PROVE Append(p, m) # <<>> /\ Append(p, m) # p
<1>1. Len(Append(p, m)) = Len(p) + 1 /\ Len(<<>>) = 0 /\ Len(p) \in Nat
  OBVIOUS
<1> QED
  BY <1>1

LEMMA SequenceGrows ==
  ASSUME NEW S, NEW s \in Seq(S), NEW m
  PROVE  /\ DOMAIN s = 1..Len(s) /\ Len(s) \in Nat
         /\ DOMAIN Append(s, m) = 1..(Len(s) + 1) /\ Len(Append(s, m)) = Len(s) + 1
         /\ Append(s, m)[Len(s) + 1] = m /\ \A i \in 1..Len(s) : Append(s, m)[i] = s[i]
  OBVIOUS

\* The tree after a move that was still open has been played at a node of it.
LEMMA PlayGrows ==
  ASSUME TreeOK, NEW p \in Nodes, NEW m \in Available(p), Play(p, m)
  PROVE  Growth(p, m)
<1> DEFINE c == Append(p, m)
           after == Apply(boards[p], m)
           k1 == [kids EXCEPT ![p] = Append(@, m)]
<1>1. /\ kids' = With(k1, c, <<>>) /\ boards' = With(boards, c, after)
      /\ open' = With(open, c, LegalMoves(after)) /\ cursor' = c
  BY DEF Play
<1>2. /\ DOMAIN kids = Nodes /\ DOMAIN boards = Nodes /\ DOMAIN open = Nodes /\ <<>> \in Nodes
      /\ Nodes \subseteq Seq(Moves)
      /\ \A q \in Nodes : Grown(q) /\ Positioned(q) /\ Rooted(q)
      /\ \A q \in Nodes : q = <<>> \/ \E r \in Nodes : ChildOf(q, r)
  BY DEF TreeOK, Nodes
<1>3. m \in open[p] /\ m \in LegalMoves(boards[p]) /\ m \in Moves /\ Sound(boards[p]) /\ p \in Seq(Moves)
  BY <1>2, LegalTyped DEF Available, Positioned
<1>4. Sound(after)
  BY <1>3, LegalMovesKeepSound
<1>5. c \in Seq(Moves) /\ c # <<>> /\ c # p
  BY <1>3, AppendNotEmpty
<1>6. kids[p] \in Seq(open[p]) /\ \A i \in DOMAIN kids[p] : kids[p][i] # m
  BY <1>2 DEF Available, Elements, Grown
<1>7. c \notin Nodes
  <2> SUFFICES ASSUME c \in Nodes PROVE FALSE
    OBVIOUS
  <2>1. PICK r \in Nodes : \E i \in DOMAIN kids[r] : c = Append(r, kids[r][i])
    BY <1>2, <1>5 DEF ChildOf
  <2>3. PICK i \in DOMAIN kids[r] : c = Append(r, kids[r][i])
    BY <2>1
  <2>2. r = p /\ kids[r][i] = m
    <3>1. r \in Seq(Moves)
      BY <1>2
    <3> QED
      BY <1>3, <2>3, <3>1, AppendTells DEF c
  <2> QED
    BY <1>6, <2>2, <2>3
<1> HIDE DEF c, after
<1>8. DOMAIN k1 = Nodes /\ k1[p] = Append(kids[p], m) /\ \A q \in Nodes : q # p => k1[q] = kids[q]
  BY <1>2
<1> HIDE DEF k1
<1>9. /\ Nodes' = Nodes \cup {c} /\ DOMAIN kids' = Nodes \cup {c} /\ DOMAIN boards' = Nodes \cup {c}
      /\ kids'[c] = <<>> /\ boards'[c] = after /\ open'[c] = LegalMoves(after)
      /\ \A q \in Nodes : kids'[q] = k1[q] /\ boards'[q] = boards[q] /\ open'[q] = open[q]
  <2>1. /\ DOMAIN kids' = Nodes \cup {c} /\ kids'[c] = <<>> /\ \A q \in Nodes : kids'[q] = k1[q]
    <3>1. DOMAIN kids' = DOMAIN k1 \cup {c} /\ kids'[c] = <<>> /\ \A x \in DOMAIN k1 : x # c => kids'[x] = k1[x]
      BY <1>1 DEF With
    <3> QED
      BY <1>8, <1>7, <3>1
  <2>2. /\ DOMAIN boards' = Nodes \cup {c} /\ boards'[c] = after /\ \A q \in Nodes : boards'[q] = boards[q]
    <3>1. /\ DOMAIN boards' = DOMAIN boards \cup {c} /\ boards'[c] = after
          /\ \A x \in DOMAIN boards : x # c => boards'[x] = boards[x]
      BY <1>1 DEF With
    <3> QED
      BY <1>2, <1>7, <3>1
  <2>3. /\ DOMAIN open' = Nodes \cup {c} /\ open'[c] = LegalMoves(after) /\ \A q \in Nodes : open'[q] = open[q]
    <3>1. /\ DOMAIN open' = DOMAIN open \cup {c} /\ open'[c] = LegalMoves(after)
          /\ \A x \in DOMAIN open : x # c => open'[x] = open[x]
      BY <1>1 DEF With
    <3> QED
      BY <1>2, <1>7, <3>1
  <2> QED
    BY <2>1, <2>2, <2>3 DEF Nodes
<1>10. /\ Len(kids[p]) \in Nat /\ DOMAIN kids[p] = 1..Len(kids[p])
       /\ DOMAIN kids'[p] = 1..(Len(kids[p]) + 1) /\ kids'[p][Len(kids[p]) + 1] = m
       /\ \A i \in 1..Len(kids[p]) : kids'[p][i] = kids[p][i]
  <2>1. kids'[p] = Append(kids[p], m)
    BY <1>8, <1>9
  <2> QED
    BY <1>6, <2>1, SequenceGrows
<1>11. ASSUME NEW q \in Nodes', q # c PROVE Grown(q)' /\ Positioned(q)' /\ Rooted(q)'
  <2>1. q \in Nodes /\ Grown(q) /\ Positioned(q) /\ Rooted(q)
    BY <1>2, <1>9, <1>11
  <2>2. Positioned(q)'
    BY <1>9, <2>1 DEF Positioned
  <2>3. CASE q = p
    <3>1. kids'[q] \in Seq(open'[q])
      <4>1. Append(kids[p], m) \in Seq(open[p])
        BY <1>3, <1>6, AppendProperties
      <4> QED
        BY <1>8, <1>9, <2>1, <2>3, <4>1
    <3>2. \A i, j \in DOMAIN kids'[q] : kids'[q][i] = kids'[q][j] => i = j
      <4>1. \A i, j \in 1..Len(kids[p]) : kids[p][i] = kids[p][j] => i = j
        BY <1>10, <2>1, <2>3 DEF Grown
      <4>2. \A i \in 1..Len(kids[p]) : kids[p][i] # m
        BY <1>6, <1>10
      <4> DEFINE n == Len(kids[p])
                 k == kids'[p]
      <4>3. n \in Nat /\ DOMAIN k = 1..(n + 1) /\ k[n + 1] = m /\ \A i \in 1..n : k[i] = kids[p][i]
        BY <1>10
      <4> HIDE DEF n, k
      <4>4. \A i, j \in 1..n : k[i] = k[j] => i = j
        BY <4>1, <4>3 DEF n
      <4>5. \A i \in 1..n : k[i] # k[n + 1]
        BY <4>2, <4>3 DEF n
      <4>6. \A i, j \in DOMAIN k : k[i] = k[j] => i = j
        BY <4>3, <4>4, <4>5
      <4> QED
        BY <2>3, <4>6 DEF k
    <3>3. Rooted(q)'
      <4> SUFFICES ASSUME NEW i \in DOMAIN kids'[q]
                   PROVE /\ Append(q, kids'[q][i]) \in Nodes'
                         /\ boards'[Append(q, kids'[q][i])] = Apply(boards'[q], kids'[q][i])
        BY DEF Rooted
      <4>1. CASE i = Len(kids[p]) + 1
        BY <1>9, <1>10, <2>1, <2>3, <4>1 DEF c, after
      <4>2. CASE i \in 1..Len(kids[p])
        BY <1>9, <1>10, <2>1, <2>3, <4>2 DEF Rooted
      <4> QED
        BY <1>10, <2>3, <4>1, <4>2
    <3> QED
      BY <2>2, <3>1, <3>2, <3>3 DEF Grown
  <2>4. CASE q # p
    <3>1. kids'[q] = kids[q]
      BY <1>8, <1>9, <2>1, <2>4
    <3>2. Grown(q)'
      BY <1>9, <2>1, <3>1 DEF Grown
    <3>3. Rooted(q)'
      BY <1>9, <2>1, <3>1 DEF Rooted
    <3> QED
      BY <2>2, <3>2, <3>3
  <2> QED
    BY <2>3, <2>4
<1>12. Grown(c)' /\ Positioned(c)' /\ Rooted(c)'
  BY <1>4, <1>9 DEF Grown, Positioned, Rooted
<1>13. ASSUME NEW q \in Nodes' PROVE q = <<>> \/ \E r \in Nodes' : ChildOf(q, r)'
  <2>1. CASE q = c
    <3>1. ChildOf(q, p)'
      BY <1>10, <2>1 DEF ChildOf, c
    <3> QED
      BY <1>9, <3>1
  <2>2. CASE q \in Nodes /\ q # <<>>
    <3>1. PICK r \in Nodes : ChildOf(q, r)
      BY <1>2, <2>2
    <3>2. ChildOf(q, r)'
      <4>1. CASE r = p
        <5>1. PICK i \in 1..Len(kids[p]) : q = Append(p, kids[p][i])
          BY <1>10, <3>1, <4>1 DEF ChildOf
        <5>2. i \in 1..(Len(kids[p]) + 1)
          BY <1>10
        <5> QED
          BY <1>10, <4>1, <5>1, <5>2 DEF ChildOf
      <4>2. CASE r # p
        BY <1>8, <1>9, <3>1, <4>2 DEF ChildOf
      <4> QED
        BY <4>1, <4>2
    <3> QED
      BY <1>9, <3>1, <3>2
  <2> QED
    BY <1>9, <2>1, <2>2
<1>14. TreeOK'
  <2>1. Nodes' \subseteq Seq(Moves) /\ <<>> \in Nodes'
    BY <1>2, <1>5, <1>9
  <2>2. DOMAIN kids' = Nodes' /\ DOMAIN boards' = Nodes'
    BY <1>9
  <2>3. \A q \in Nodes' : Grown(q)' /\ Positioned(q)' /\ Rooted(q)'
    BY <1>11, <1>12
  <2> QED
    BY <1>13, <2>1, <2>2, <2>3 DEF TreeOK
<1> QED
  BY <1>1, <1>7, <1>8, <1>9, <1>14 DEF c, Growth

\* A digit picks a move that is still open.
LEMMA DigitPicks ==
  ASSUME ConservedInv, remaining > 0, NEW p \in Nodes, NEW moves \in SUBSET open[p], moves # {}, open[p] \subseteq Moves
  PROVE  LET k == Cardinality(moves) IN
         /\ k \in Nat \ {0} /\ Digit(k) \in 0..(k - 1)
         /\ Nth(moves, Digit(k)) \in moves /\ IndexIn(moves, Nth(moves, Digit(k))) = Digit(k)
<1> DEFINE k == Cardinality(moves)
<1>1. moves \in SUBSET Moves
  OBVIOUS
<1>2. k \in Nat \ {0}
  BY <1>1, MoveSetsFinite, FS_EmptySet
<1>3. remaining - 1 \in Nat
  BY DEF ConservedInv, Numbers
<1> HIDE DEF k
<1>4. Digit(k) \in 0..(k - 1)
  BY <1>2, <1>3 DEF Digit
<1>5. Nth(moves, Digit(k)) \in moves /\ IndexIn(moves, Nth(moves, Digit(k))) = Digit(k)
  BY <1>1, <1>4, NthIs DEF k
<1> QED
  BY <1>2, <1>4, <1>5 DEF k

LEMMA WriteGrows ==
  ASSUME ConservedInv, TreeOK, remaining > 0, NEW p \in Nodes, Available(p) # {}, WritePly(p, Available(p))
  PROVE  \E m \in Available(p) : IndexIn(Available(p), m) = Digit(Cardinality(Available(p))) /\ Growth(p, m)
<1> DEFINE moves == Available(p)
           m == Nth(moves, Digit(Cardinality(moves)))
<1>1. open[p] \subseteq Moves
  BY LegalTyped DEF TreeOK, Positioned
<1>2. moves \in SUBSET open[p]
  BY DEF Available
<1>3. m \in moves /\ IndexIn(moves, m) = Digit(Cardinality(moves))
  <2> HIDE DEF moves
  <2>1. moves # {}
    BY DEF moves
  <2> QED
    BY <1>1, <1>2, <2>1, DigitPicks
<1>4. Play(p, m)
  BY DEF WritePly
<1> HIDE DEF m
<1>5. Growth(p, m)
  BY <1>3, <1>4, PlayGrows
<1> QED
  BY <1>3, <1>5

LEMMA TreeInit == ASSUME Init PROVE TreeInv
<1>1. PICK g \in Games : /\ num = g.num /\ boards = [p \in {<<>>} |-> g.start]
                         /\ open = [p \in {<<>>} |-> LegalMoves(g.start)]
  BY DEF Init, Only
<1>2. kids = [p \in {<<>>} |-> <<>>] /\ cursor = <<>> /\ phase = "mainline"
  BY DEF Init, Only
<1>3. Nodes = {<<>>} /\ Sound(boards[<<>>]) /\ open[<<>>] = LegalMoves(boards[<<>>]) /\ kids[<<>>] = <<>>
  BY <1>1, <1>2, GamesAssumption DEF Nodes
<1>4. TreeOK
  BY <1>1, <1>2, <1>3 DEF TreeOK, Grown, Positioned, Rooted
<1> QED
  BY <1>2, <1>3, <1>4, ConservedInit DEF TreeInv, Tip, Phases

LEMMA TreeNext == ASSUME TreeInv, [Next]_vars PROVE TreeInv'
<1>1. ConservedInv'
  BY ConservedNext DEF TreeInv
<1>2. ConservedInv /\ TreeOK /\ Tip /\ phase \in Phases /\ cursor \in Nodes
  BY DEF TreeInv, ConservedInv, Known
<1>3. kids[cursor] = <<>> => Available(cursor) = open[cursor]
  BY DEF Available, Elements
<1>4. ASSUME NEW p \in Nodes, Available(p) # {}, remaining > 0, WritePly(p, Available(p)) PROVE TreeOK' /\ Tip'
  <2>1. PICK m \in Available(p) : TreeOK' /\ cursor' = Append(p, m) /\ kids'[Append(p, m)] = <<>>
    BY <1>2, <1>4, WriteGrows DEF Growth
  <2> QED
    BY <2>1 DEF Tip
<1>5. CASE MainPly
  <2>1. WritePly(cursor, Available(cursor)) /\ Available(cursor) # {} /\ remaining > 0 /\ phase' = phase
    BY <1>2, <1>3, <1>5 DEF MainPly, CanExtend, Tip
  <2> QED
    BY <1>1, <1>2, <1>4, <2>1 DEF TreeInv
<1>6. CASE AddVariation
  <2>1. Here \in Nodes
    BY <1>2, <1>6 DEF AddVariation, Here, ConservedInv, Known
  <2>2. WritePly(Here, Available(Here)) /\ Available(Here) # {} /\ remaining > 0 /\ phase' = "branch"
    BY <1>6 DEF AddVariation, TakesMore
  <2> QED
    BY <1>1, <1>4, <2>1, <2>2 DEF TreeInv, Phases
<1>7. CASE BranchPly
  <2>1. WritePly(cursor, Available(cursor)) /\ Available(cursor) # {} /\ remaining > 0 /\ phase' = phase
    BY <1>2, <1>3, <1>7 DEF BranchPly, CanExtend, Tip
  <2> QED
    BY <1>1, <1>2, <1>4, <2>1 DEF TreeInv
<1>8. ASSUME UNCHANGED tree, phase' \in {"round", "descend", "done", "failed"} \/ UNCHANGED <<phase, cursor>>
      PROVE  TreeInv'
  <2>1. TreeOK'
    BY <1>2, <1>8 DEF TreeOK, Nodes, Grown, Positioned, Rooted, ChildOf, tree
  <2>2. Tip' /\ phase' \in Phases
    BY <1>2, <1>8 DEF Tip, tree, Phases
  <2> QED
    BY <1>1, <2>1, <2>2 DEF TreeInv
<1>9. CASE EndMainline
  BY <1>8, <1>9 DEF EndMainline
<1>10. CASE EndBranch
  BY <1>8, <1>10 DEF EndBranch
<1>11. CASE NextPosition
  BY <1>8, <1>11 DEF NextPosition
<1>12. CASE NextRound
  BY <1>8, <1>12 DEF NextRound
<1>13. CASE EndLevel
  BY <1>8, <1>13 DEF EndLevel
<1>14. CASE Descend
  BY <1>8, <1>14 DEF Descend
<1>15. CASE Finish
  BY <1>8, <1>15 DEF Finish
<1>16. CASE UNCHANGED vars
  BY <1>8, <1>16 DEF vars
<1> QED
  BY <1>5, <1>6, <1>7, <1>9, <1>10, <1>11, <1>12, <1>13, <1>14, <1>15, <1>16 DEF Next

LEMMA TreeAlways == Spec => []TreeInv
  BY TreeInit, TreeNext, PTL DEF Spec

\* From a sound position only sound positions are reached, whatever the number
\* and the limits: the move generator's assumptions hold at every node
\* (board.py _apply_move, _update_castling_rights, generate_legal_moves).
THEOREM PositionsAreSound == Spec => []BoardSound
<1>1. TreeInv => BoardSound
  BY DEF TreeInv, TreeOK, ConservedInv, Known, Positioned, BoardSound
<1> QED
  BY TreeAlways, <1>1, PTL

-----------------------------------------------------------------------------
\* Names.
LEMMA MoveIs ==
  ASSUME NEW m \in Moves, NEW n \in Moves, m.from = n.from, m.to = n.to, m.promotion = n.promotion
  PROVE  m = n
  BY DEF Moves

\* What a name of a pawn's move leaves out: a pawn that advances, and one that
\* captures, have each a single origin.
LEMMA PawnAdvance ==
  ASSUME NEW b, Sound(b), NEW m \in PseudoLegal(b), Role(b.cells[m.from]) = "P"
  PROVE  /\ m \in Moves /\ b.cells[m.from] = Man(b.white, "P")
         /\ IsCapture(b, m) => /\ RankOf(m.from) = RankOf(m.to) - Forward(b)
                               /\ b.cells[m.to] # Empty \/ b.cells[m.to - 8 * Forward(b)] = Man(~b.white, "P")
         /\ ~IsCapture(b, m) =>
              \/ m.from = m.to - 8 * Forward(b)
              \/ m.from = m.to - 16 * Forward(b) /\ b.cells[m.to - 8 * Forward(b)] = Empty
         /\ ~IsCapture(b, m) => b.cells[m.to] = Empty
<1>1. /\ b \in Board /\ PawnsInside(b) /\ PassantFree(b) /\ b.white \in BOOLEAN
      /\ m \in Moves /\ b.cells[m.from] \in Of(b.white) /\ Way(b, m) /\ m.from \in Squares /\ m.to \in Squares
  <2>1. b \in Board /\ PawnsInside(b) /\ PassantFree(b)
    BY SoundIs
  <2> QED
    BY <2>1, MovesLawful DEF Lawful, Board, Moves
<1>2. b.cells[m.from] = Man(b.white, "P")
  BY <1>1, Men
<1>3. PawnWay(b, m)
  BY <1>1 DEF Way
<1>4. RankOf(m.from) \in 1..6
  <2>1. b.cells[m.from] \in {"P", "p"}
    BY <1>2 DEF Man, BlackOf
  <2> QED
    BY <1>1, <2>1 DEF PawnsInside
<1>5. Forward(b) \in Int /\ m.from \in Int /\ m.to \in Int /\ Behind(b) = b.ep - 8 * Forward(b)
      /\ FileOf(m.from) \in Int /\ RankOf(m.from) \in Int /\ RankOf(m.to) \in Int /\ FileOf(m.to) \in Int
  <2>1. b.ep \in Int
    BY <1>1 DEF Board, Squares, NoSquare
  <2> QED
    BY <1>1, <2>1, SquareIs DEF Forward, Behind
<1>6. PawnPush(b, m) \/ PawnJump(b, m) \/ PawnCapture(b, m)
  BY <1>3 DEF PawnWay
<1>7. /\ PawnPush(b, m) \/ PawnJump(b, m) => FileOf(m.from) = FileOf(m.to) /\ b.cells[m.to] = Empty
      /\ PawnCapture(b, m) => FileOf(m.from) # FileOf(m.to) /\ RankOf(m.from) = RankOf(m.to) - Forward(b)
  <2>1. PawnPush(b, m) \/ PawnJump(b, m) => FileOf(m.from) = FileOf(m.to)
    BY <1>1, <1>3, <1>4, <1>5, PawnGoes
  <2>2. PawnCapture(b, m) => FileOf(m.from) # FileOf(m.to) /\ RankOf(m.from) = RankOf(m.to) - Forward(b)
    <3>1. PawnCapture(b, m) => /\ RankOf(m.to) = RankOf(m.from) + Forward(b)
                               /\ FileOf(m.to) = FileOf(m.from) - 1 \/ FileOf(m.to) = FileOf(m.from) + 1
      BY <1>1, <1>3, <1>4, PawnGoes
    <3> QED
      BY <1>5, <3>1
  <2> QED
    BY <2>1, <2>2 DEF PawnPush, PawnJump
<1>8. PawnCapture(b, m) => IsCapture(b, m)
  <2>1. Takes(b, m.to) => b.cells[m.to] # Empty
    BY <1>1, Sides DEF Takes
  <2> QED
    BY <1>7, <2>1 DEF PawnCapture, IsCapture
<1>9. ASSUME IsCapture(b, m)
      PROVE  /\ RankOf(m.from) = RankOf(m.to) - Forward(b)
             /\ b.cells[m.to] # Empty \/ b.cells[m.to - 8 * Forward(b)] = Man(~b.white, "P")
  <2>1. RankOf(m.from) = RankOf(m.to) - Forward(b)
    BY <1>6, <1>7, <1>9 DEF IsCapture
  <2>2. m.to = b.ep => b.cells[m.to - 8 * Forward(b)] = Man(~b.white, "P")
    BY <1>1, <1>5, PassantEmpty
  <2> QED
    BY <1>9, <2>1, <2>2 DEF IsCapture
<1>10. ASSUME ~IsCapture(b, m)
       PROVE  /\ \/ m.from = m.to - 8 * Forward(b)
                 \/ m.from = m.to - 16 * Forward(b) /\ b.cells[m.to - 8 * Forward(b)] = Empty
              /\ b.cells[m.to] = Empty
  <2>1. PawnPush(b, m) \/ PawnJump(b, m)
    BY <1>6, <1>8, <1>10
  <2>2. PawnPush(b, m) => m.from = m.to - 8 * Forward(b)
    BY <1>5 DEF PawnPush
  <2>3. PawnJump(b, m) => m.from = m.to - 16 * Forward(b) /\ b.cells[m.to - 8 * Forward(b)] = Empty
    <3>1. m.to = m.from + 16 * Forward(b) => m.from = m.to - 16 * Forward(b)
                                             /\ m.from + 8 * Forward(b) = m.to - 8 * Forward(b)
      BY <1>5
    <3> QED
      BY <3>1 DEF PawnJump
  <2> QED
    BY <1>7, <2>1, <2>2, <2>3
<1> QED
  BY <1>1, <1>2, <1>9, <1>10

LEMMA PawnNames ==
  ASSUME NEW b, Sound(b), NEW m \in PseudoLegal(b), NEW n \in PseudoLegal(b),
         Role(b.cells[m.from]) = "P", Role(b.cells[n.from]) = "P", n.to = m.to, n.promotion = m.promotion,
         IsCapture(b, m) => IsCapture(b, n) /\ FileOf(n.from) = FileOf(m.from)
  PROVE  n = m
<1>1. b.white \in BOOLEAN
  BY SoundIs DEF Board
<1>2. m \in Moves /\ n \in Moves /\ m.from \in Squares /\ n.from \in Squares
      /\ b.cells[m.from] = Man(b.white, "P") /\ b.cells[n.from] = Man(b.white, "P")
  BY PawnAdvance DEF Moves
<1>3. Man(b.white, "P") # Empty /\ Man(b.white, "P") # Man(~b.white, "P") /\ Man(~b.white, "P") # Empty
  BY <1>1, Sides
<1>4. CASE IsCapture(b, m)
  <2>1. RankOf(m.from) = RankOf(m.to) - Forward(b) /\ RankOf(n.from) = RankOf(n.to) - Forward(b)
    BY <1>4, PawnAdvance
  <2>2. m.from = n.from
    BY <1>2, <1>4, <2>1, SquareIs
  <2> QED
    BY <1>2, <2>2, MoveIs
<1>5. CASE ~IsCapture(b, m)
  <2> DEFINE t == m.to - 8 * Forward(b)
             u == m.to - 16 * Forward(b)
  <2>1. b.cells[m.to] = Empty /\ (m.from = t \/ (m.from = u /\ b.cells[t] = Empty))
    BY <1>5, PawnAdvance
  <2>2. ~IsCapture(b, n)
    <3>1. IsCapture(b, n) => b.cells[t] = Man(~b.white, "P")
      BY <2>1, PawnAdvance
    <3> QED
      BY <1>2, <1>3, <2>1, <3>1
  <2>3. n.from = t \/ (n.from = u /\ b.cells[t] = Empty)
    BY <2>2, PawnAdvance
  <2> HIDE DEF t, u
  <2>4. m.from = n.from
    BY <1>2, <1>3, <2>1, <2>3
  <2> QED
    BY <1>2, <2>4, MoveIs
<1> QED
  BY <1>4, <1>5

LEMMA PieceNames ==
  ASSUME NEW b, NEW legal \in SUBSET Moves, NEW m \in legal, NEW n \in legal,
         n.to = m.to, n.promotion = m.promotion, b.cells[n.from] = b.cells[m.from],
         "file" \in Disambiguation(b, m, legal) => FileOf(n.from) = FileOf(m.from),
         "rank" \in Disambiguation(b, m, legal) => RankOf(n.from) = RankOf(m.from)
  PROVE  n = m
<1> DEFINE rivals == {r \in legal \ {m} : r.to = m.to /\ b.cells[r.from] = b.cells[m.from]}
           sameFile == \E r \in rivals : FileOf(r.from) = FileOf(m.from)
           sameRank == \E r \in rivals : RankOf(r.from) = RankOf(m.from)
<1> SUFFICES ASSUME n # m PROVE FALSE
  OBVIOUS
<1>1. n \in rivals /\ m.from \in Squares /\ n.from \in Squares
  BY DEF Moves
<1>2. Disambiguation(b, m, legal) = IF sameFile /\ sameRank THEN {"file", "rank"}
                                    ELSE IF sameFile THEN {"rank"} ELSE {"file"}
  BY <1>1 DEF Disambiguation
<1>3. FileOf(n.from) = FileOf(m.from) => sameFile
  BY <1>1
<1>4. RankOf(n.from) = RankOf(m.from) => sameRank
  BY <1>1
<1> HIDE DEF sameFile, sameRank, rivals
<1>5. FileOf(n.from) = FileOf(m.from) /\ RankOf(n.from) = RankOf(m.from)
  BY <1>2, <1>3, <1>4
<1>6. n.from = m.from
  BY <1>1, <1>5, SquareIs
<1> QED
  BY <1>6, MoveIs

\* Where a king castles to, by the name.
LEMMA CastleTo ==
  ASSUME NEW b \in Board, NEW m \in Moves, NEW c \in Castlings, CastleWay(b, m, c), b.cells[m.from] \in Of(b.white)
  PROVE  m.to = (IF FileOf(m.to) > FileOf(m.from) THEN 6 ELSE 2) + (IF b.white THEN 0 ELSE 56)
<1>1. b.white \in BOOLEAN /\ c.king \in Of(b.white) /\ m.from = c.from /\ m.to = c.to
  BY DEF Board, CastleWay
<1>2. \/ c.king = "K" /\ c.from = 4 /\ c.to \in {6, 2}
      \/ c.king = "k" /\ c.from = 60 /\ c.to \in {62, 58}
  BY DEF Castlings
<1>3. "K" \notin BlackPieces /\ "k" \notin WhitePieces
  BY DEF WhitePieces, BlackPieces
<1> QED
  BY <1>1, <1>2, <1>3 DEF Of, FileOf

LEMMA NamesMean ==
  ASSUME NEW b, Sound(b), NEW m \in LegalMoves(b)
  PROVE  Meant(b, San(b, m, LegalMoves(b)), LegalMoves(b)) = {m}
<1> DEFINE legal == LegalMoves(b)
           san == San(b, m, legal)
           role(x) == Role(b.cells[x.from])
           shown == IF role(m) = "P" THEN (IF IsCapture(b, m) THEN {"file"} ELSE {}) ELSE Disambiguation(b, m, legal)
<1>1. /\ b \in Board /\ b.white \in BOOLEAN /\ legal \in SUBSET Moves /\ legal \subseteq PseudoLegal(b)
      /\ \A x \in legal : x \in Moves /\ b.cells[x.from] \in Of(b.white) /\ Way(b, x)
  <2>1. b \in Board /\ legal \subseteq PseudoLegal(b)
    BY SoundIs DEF LegalMoves
  <2>2. \A x \in legal : Lawful(b, x)
    BY <2>1, MovesLawful
  <2> QED
    BY <2>1, <2>2 DEF Lawful, Board
<1>2. /\ san.castle = (IF Castled(b, m) = {} THEN "no" ELSE IF FileOf(m.to) > FileOf(m.from) THEN "O-O" ELSE "O-O-O")
      /\ san.role = role(m) /\ san.capture = IsCapture(b, m) /\ san.to = m.to /\ san.promotion = m.promotion
      /\ san.file = (IF "file" \in shown THEN {FileOf(m.from)} ELSE {})
      /\ san.rank = (IF "rank" \in shown THEN {RankOf(m.from)} ELSE {})
  BY DEF San
<1> HIDE DEF legal, san, shown
<1>3. CASE Castled(b, m) # {}
  <2>1. role(m) = "K" /\ Distance(FileOf(m.from), FileOf(m.to)) = 2
    BY <1>3 DEF Castled
  <2>2. PICK c \in Castlings : CastleWay(b, m, c)
    BY <1>1, <2>1, CastlesOnly DEF legal
  <2> DEFINE to == (IF san.castle = "O-O" THEN 6 ELSE 2) + (IF b.white THEN 0 ELSE 56)
  <2>3. m.to = to
    BY <1>1, <1>2, <1>3, <2>2, CastleTo DEF legal
  <2>4. Meant(b, san, legal) = {n \in legal : n.to = to /\ role(n) = "K" /\ Distance(FileOf(n.from), FileOf(n.to)) = 2}
    BY <1>2, <1>3 DEF Meant
  <2> HIDE DEF to
  <2>5. ASSUME NEW n \in legal, n.to = to, role(n) = "K", Distance(FileOf(n.from), FileOf(n.to)) = 2 PROVE n = m
    <3>1. PICK e \in Castlings : CastleWay(b, n, e)
      BY <1>1, <2>5, CastlesOnly
    <3>2. e = c
      BY <2>2, <2>3, <2>5, <3>1, CastlingsAre DEF CastleWay
    <3> QED
      BY <1>1, <2>2, <2>3, <2>5, <3>1, <3>2, MoveIs DEF CastleWay, legal
  <2>6. m \in legal
    BY DEF legal
  <2>7. Meant(b, san, legal) = {m}
    BY <2>1, <2>3, <2>4, <2>5, <2>6
  <2> QED
    BY <2>7 DEF san, legal
<1>4. CASE Castled(b, m) = {}
  <2>1. Meant(b, san, legal) =
          {n \in legal :
             /\ role(n) = role(m) /\ n.to = m.to /\ n.promotion = m.promotion
             /\ san.file \subseteq {FileOf(n.from)} /\ san.rank \subseteq {RankOf(n.from)}
             /\ san.capture => IsCapture(b, n)
             /\ ~san.capture /\ role(m) # "P" => ~IsCapture(b, n)}
    BY <1>2, <1>4 DEF Meant
  <2>2. ASSUME NEW n \in legal, role(n) = role(m), n.to = m.to, n.promotion = m.promotion,
               san.file \subseteq {FileOf(n.from)}, san.rank \subseteq {RankOf(n.from)},
               san.capture => IsCapture(b, n)
        PROVE  n = m
    <3>1. b.cells[n.from] = b.cells[m.from]
      BY <1>1, <2>2, Men DEF legal
    <3>2. /\ "file" \in shown => FileOf(n.from) = FileOf(m.from)
          /\ "rank" \in shown => RankOf(n.from) = RankOf(m.from)
      BY <1>2, <2>2
    <3>3. CASE role(m) = "P"
      <4>1. IsCapture(b, m) => IsCapture(b, n) /\ FileOf(n.from) = FileOf(m.from)
        BY <1>2, <2>2, <3>2, <3>3 DEF shown
      <4> QED
        BY <1>1, <2>2, <3>3, <4>1, PawnNames DEF legal
    <3>4. CASE role(m) # "P"
      <4>1. shown = Disambiguation(b, m, legal)
        BY <3>4 DEF shown
      <4>2. m \in legal
        BY DEF legal
      <4> QED
        BY <1>1, <2>2, <3>1, <3>2, <4>1, <4>2, PieceNames
    <3> QED
      BY <3>3, <3>4
  <2>3. m \in legal
    BY DEF legal
  <2>4. /\ san.file \subseteq {FileOf(m.from)} /\ san.rank \subseteq {RankOf(m.from)}
        /\ san.capture => IsCapture(b, m)
        /\ ~san.capture => ~IsCapture(b, m)
    BY <1>2
  <2>5. Meant(b, san, legal) = {m}
    BY <2>1, <2>2, <2>3, <2>4
  <2> QED
    BY <2>5 DEF san, legal
<1> QED
  BY <1>3, <1>4

\* Wherever the game has come to, the reader takes each move's name for that
\* move and no other, whatever rules out its rivals: what is shown of its
\* origin, the square a pawn comes from, the single way to castle to a square
\* (board.py san, parse_san).
THEOREM NamesMeanOneMove == Spec => []NamesTellMovesApart
<1>1. TreeInv => NamesTellMovesApart
  <2> SUFFICES ASSUME TreeInv, NEW m \in open[cursor]
               PROVE  Meant(boards[cursor], San(boards[cursor], m, open[cursor]), open[cursor]) = {m}
    BY DEF NamesTellMovesApart
  <2>1. Sound(boards[cursor]) /\ open[cursor] = LegalMoves(boards[cursor])
    BY DEF TreeInv, TreeOK, ConservedInv, Known, Positioned
  <2> QED
    BY <2>1, NamesMean
<1> QED
  BY TreeAlways, <1>1, PTL

-----------------------------------------------------------------------------
\* Refusal.  A node the encoder deals to is full or waits its turn: in this
\* level's positions, at the end of a branch, or on the agenda.
Full(p) == Available(p) = {}
Waits(p) ==
  \/ phase \in {"mainline", "round", "branch"} /\ p \in Elements(positions)
  \/ phase \in {"round", "branch"} /\ p \in Elements(ends)
  \/ phase \in {"round", "branch", "descend"} /\ p \in Elements(agenda)
  \/ phase = "branch" /\ p = cursor
Covered == remaining > 0 => \A p \in Nodes : DealtTo(p) => Full(p) \/ Waits(p)

\* No round passes a position by that still has a move.
Scanned ==
  /\ dealt \in Nat
  /\ ~progress => dealt = 0 /\ (remaining > 0 => \A i \in DOMAIN positions : i < at => Full(positions[i]))
  /\ phase = "branch" => progress
  /\ phase = "mainline" => at = 1
  /\ phase = "failed" => remaining # 0

\* The mainline grows at its end and nowhere else.
OffTip == \A p \in Elements(positions) : p \in Mainline => kids[p] # <<>>
Sidelines ==
  /\ \A p \in Elements(ends) \cup Elements(agenda) : p \notin Mainline
  /\ phase = "branch" => cursor \notin Mainline
  /\ phase = "mainline" => cursor \in Mainline

Prefixed == \A p \in Nodes : \A i \in DOMAIN p : SubSeq(p, 1, i - 1) \in Nodes /\ kids[SubSeq(p, 1, i - 1)] # <<>>

RefusedInv == TreeInv /\ Prefixed /\ OffTip /\ Sidelines /\ Scanned /\ Covered

LEMMA PrefixesGrow ==
  ASSUME NEW S, NEW p \in Seq(S), NEW m \in S
  PROVE  /\ DOMAIN p = 1..Len(p) /\ Len(p) \in Nat /\ DOMAIN Append(p, m) = 1..(Len(p) + 1)
         /\ Append(p, m)[Len(p) + 1] = m /\ SubSeq(Append(p, m), 1, Len(p)) = p
         /\ \A i \in 1..Len(p) : /\ Append(p, m)[i] = p[i]
                                 /\ SubSeq(Append(p, m), 1, i - 1) = SubSeq(p, 1, i - 1)
<1> DEFINE c == Append(p, m)
           n == Len(p)
<1>1. /\ DOMAIN p = 1..n /\ n \in Nat /\ DOMAIN c = 1..(n + 1) /\ c[n + 1] = m /\ Len(c) = n + 1 /\ c \in Seq(S)
      /\ \A i \in 1..n : c[i] = p[i] /\ p[i] \in S
  OBVIOUS
<1> HIDE DEF c, n
<1>2. ASSUME NEW k \in 0..n
      PROVE  /\ SubSeq(c, 1, k) \in Seq(S) /\ Len(SubSeq(c, 1, k)) = k
             /\ SubSeq(p, 1, k) \in Seq(S) /\ Len(SubSeq(p, 1, k)) = k
             /\ \A i \in 1..k : SubSeq(c, 1, k)[i] = p[i] /\ SubSeq(p, 1, k)[i] = p[i]
  <2>1. k \in Int /\ 1 \in Int /\ \A i \in 1..k : c[i] = p[i] /\ p[i] \in S /\ 1 + i - 1 = i
    BY <1>1
  <2>2. /\ SubSeq(c, 1, k) \in Seq(S) /\ Len(SubSeq(c, 1, k)) = (IF 1 <= k THEN k - 1 + 1 ELSE 0)
        /\ \A i \in 1..(k - 1 + 1) : SubSeq(c, 1, k)[i] = c[1 + i - 1]
    BY <2>1, SubSeqProperties
  <2>3. /\ SubSeq(p, 1, k) \in Seq(S) /\ Len(SubSeq(p, 1, k)) = (IF 1 <= k THEN k - 1 + 1 ELSE 0)
        /\ \A i \in 1..(k - 1 + 1) : SubSeq(p, 1, k)[i] = p[1 + i - 1]
    BY <2>1, SubSeqProperties
  <2>4. k - 1 + 1 = k /\ (IF 1 <= k THEN k - 1 + 1 ELSE 0) = k
    BY <1>1
  <2> QED
    BY <2>1, <2>2, <2>3, <2>4
<1>3. \A k \in 0..n : SubSeq(c, 1, k) = SubSeq(p, 1, k)
  BY <1>2
<1>4. SubSeq(p, 1, n) = p
  BY SubSeqFull DEF n
<1>5. \A i \in 1..n : i - 1 \in 0..n
  BY <1>1
<1> QED
  BY <1>1, <1>3, <1>4, <1>5 DEF c, n

LEMMA ElementsGrow ==
  ASSUME NEW S, NEW s \in Seq(S), NEW x PROVE Elements(Append(s, x)) = Elements(s) \cup {x}
<1>1. /\ DOMAIN s = 1..Len(s) /\ Len(s) \in Nat
      /\ DOMAIN Append(s, x) = 1..(Len(s) + 1)
      /\ Append(s, x)[Len(s) + 1] = x /\ \A i \in 1..Len(s) : Append(s, x)[i] = s[i]
  BY SequenceGrows
<1> DEFINE n == Len(s)
           t == Append(s, x)
<1> HIDE DEF n, t
<1>2. n \in Nat /\ DOMAIN s = 1..n /\ DOMAIN t = 1..(n + 1) /\ t[n + 1] = x /\ \A i \in 1..n : t[i] = s[i]
  BY <1>1 DEF n, t
<1>3. Elements(t) = Elements(s) \cup {x}
  BY <1>2 DEF Elements
<1> QED
  BY <1>3 DEF t

LEMMA ElementsJoin ==
  ASSUME NEW S, NEW s \in Seq(S), NEW t \in Seq(S) PROVE Elements(s \o t) = Elements(s) \cup Elements(t)
<1> DEFINE k == Len(s)
           n == Len(t)
           u == s \o t
<1>1. /\ k \in Nat /\ n \in Nat /\ DOMAIN s = 1..k /\ DOMAIN t = 1..n /\ DOMAIN u = 1..(k + n)
      /\ \A i \in 1..k : u[i] = s[i]
      /\ \A i \in 1..n : u[k + i] = t[i]
  OBVIOUS
<1> HIDE DEF k, n, u
<1>2. \A i \in 1..(k + n) : i \in 1..k \/ (i - k \in 1..n /\ k + (i - k) = i)
  BY <1>1
<1>3. Elements(u) \subseteq Elements(s) \cup Elements(t)
  <2> SUFFICES ASSUME NEW i \in DOMAIN u PROVE u[i] \in Elements(s) \cup Elements(t)
    BY DEF Elements
  <2>1. CASE i \in 1..k
    BY <1>1, <2>1 DEF Elements
  <2>2. CASE i - k \in 1..n /\ k + (i - k) = i
    <3>1. u[i] = t[i - k]
      BY <1>1, <2>2
    <3> QED
      BY <1>1, <2>2, <3>1 DEF Elements
  <2> QED
    BY <1>1, <1>2, <2>1, <2>2
<1>4. Elements(s) \subseteq Elements(u) /\ Elements(t) \subseteq Elements(u)
  <2>1. \A i \in 1..k : i \in DOMAIN u
    BY <1>1
  <2>2. \A i \in 1..n : k + i \in DOMAIN u
    BY <1>1
  <2> QED
    BY <1>1, <2>1, <2>2 DEF Elements
<1> QED
  BY <1>3, <1>4 DEF u

LEMMA ElementsOfTail ==
  ASSUME NEW S, NEW s \in Seq(S), s # <<>> PROVE Elements(s) = {Head(s)} \cup Elements(Tail(s))
<1> DEFINE n == Len(s)
           t == Tail(s)
           h == Head(s)
<1>1. /\ n \in Nat \ {0} /\ DOMAIN s = 1..n /\ DOMAIN t = 1..(n - 1) /\ h = s[1]
      /\ \A i \in 1..(n - 1) : t[i] = s[i + 1]
  <2>1. /\ t \in Seq(S) /\ Len(t) = n - 1 /\ \A i \in 1..Len(t) : t[i] = s[i + 1]
    BY HeadTailProperties
  <2>2. n \in Nat \ {0} /\ DOMAIN s = 1..n /\ h = s[1]
    OBVIOUS
  <2>3. DOMAIN t = 1..Len(t)
    BY <2>1
  <2> QED
    BY <2>1, <2>2, <2>3
<1> HIDE DEF n, t, h
<1>2. \A i \in 1..n : i = 1 \/ (i - 1 \in 1..(n - 1) /\ (i - 1) + 1 = i)
  BY <1>1
<1>3. 1 \in DOMAIN s /\ \A i \in 1..(n - 1) : i + 1 \in DOMAIN s
  BY <1>1
<1>4. Elements(s) \subseteq {h} \cup Elements(t)
  <2> SUFFICES ASSUME NEW i \in 1..n PROVE s[i] \in {h} \cup Elements(t)
    BY <1>1 DEF Elements
  <2>1. CASE i = 1
    BY <1>1, <2>1
  <2>2. CASE i - 1 \in 1..(n - 1) /\ (i - 1) + 1 = i
    <3>1. t[i - 1] = s[i]
      BY <1>1, <2>2
    <3> QED
      BY <1>1, <2>2, <3>1 DEF Elements
  <2> QED
    BY <1>2, <2>1, <2>2
<1>5. {h} \cup Elements(t) \subseteq Elements(s)
  BY <1>1, <1>3 DEF Elements
<1> QED
  BY <1>4, <1>5 DEF t, h

\* The tree grows at one node, and only there does anything change.
LEMMA GrowthKeeps ==
  ASSUME TreeOK, Prefixed, NEW p \in Nodes, NEW m \in Available(p), Growth(p, m)
  PROVE  /\ Prefixed' /\ kids'[p] # <<>>
         /\ \A q \in Nodes : /\ q \in Mainline' <=> q \in Mainline
                             /\ Full(q) => Full(q)'
                             /\ q # p => (DealtTo(q)' <=> DealtTo(q))
         /\ Append(p, m) \in Mainline' => p \in Mainline /\ kids[p] = <<>>
         /\ p \in Mainline /\ kids[p] = <<>> => Append(p, m) \in Mainline' /\ ~DealtTo(Append(p, m))'
         /\ p \notin Mainline /\ kids[p] = <<>> => ~DealtTo(p)'
<1> DEFINE c == Append(p, m)
<1>1. /\ DOMAIN kids = Nodes /\ DOMAIN kids' = Nodes' /\ Nodes' = Nodes \cup {c} /\ c \notin Nodes
      /\ kids'[p] = Append(kids[p], m) /\ kids'[c] = <<>>
      /\ \A q \in Nodes : open'[q] = open[q] /\ (q # p => kids'[q] = kids[q])
      /\ Nodes \subseteq Seq(Moves)
      /\ \A q \in Nodes : Grown(q) /\ Positioned(q)
  BY DEF Growth, TreeOK
<1>2. m \in Moves /\ p \in Seq(Moves) /\ kids[p] \in Seq(open[p]) /\ \A i \in DOMAIN kids[p] : kids[p][i] # m
  <2>1. m \in open[p] /\ open[p] = LegalMoves(boards[p])
    BY <1>1 DEF Available, Positioned
  <2> QED
    BY <1>1, <2>1, LegalTyped DEF Available, Elements, Grown
<1>3. /\ DOMAIN p = 1..Len(p) /\ Len(p) \in Nat /\ DOMAIN c = 1..(Len(p) + 1)
      /\ c[Len(p) + 1] = m /\ SubSeq(c, 1, Len(p)) = p
      /\ \A i \in 1..Len(p) : c[i] = p[i] /\ SubSeq(c, 1, i - 1) = SubSeq(p, 1, i - 1)
  BY <1>2, PrefixesGrow
<1> HIDE DEF c
<1>4. /\ kids'[p] # <<>> /\ Head(kids'[p]) = IF kids[p] = <<>> THEN m ELSE Head(kids[p])
      /\ Len(kids[p]) \in Nat /\ Len(kids'[p]) = Len(kids[p]) + 1
      /\ kids[p] # <<>> => Head(kids[p]) # m
      /\ kids[p] = <<>> => Len(kids'[p]) = 1
  <2>1. Len(kids'[p]) = Len(kids[p]) + 1 /\ Len(kids[p]) \in Nat
    BY <1>1, <1>2, SequenceGrows
  <2>2. Head(kids'[p]) = IF kids[p] = <<>> THEN m ELSE Head(kids[p])
    BY <1>1, <1>2, HeadTailAppend
  <2>3. kids[p] # <<>> => 1 \in DOMAIN kids[p] /\ Head(kids[p]) = kids[p][1]
    BY <1>2
  <2>4. Len(<<>>) = 0 /\ (kids[p] = <<>> => Len(kids[p]) = 0)
    OBVIOUS
  <2>5. kids'[p] # <<>>
    BY <1>1, <1>2, AppendNotEmpty
  <2> QED
    BY <1>2, <2>1, <2>2, <2>3, <2>4, <2>5
<1>5. \A r \in Nodes : kids[r] # <<>> => kids'[r] # <<>> /\ Head(kids'[r]) = Head(kids[r])
  BY <1>1, <1>4
<1>6. \A q \in Nodes : \A i \in DOMAIN q : /\ SubSeq(q, 1, i - 1) \in Nodes /\ kids[SubSeq(q, 1, i - 1)] # <<>>
                                           /\ kids'[SubSeq(q, 1, i - 1)] # <<>>
                                           /\ Head(kids'[SubSeq(q, 1, i - 1)]) = Head(kids[SubSeq(q, 1, i - 1)])
  <2> SUFFICES ASSUME NEW q \in Nodes, NEW i \in DOMAIN q
               PROVE  LET r == SubSeq(q, 1, i - 1) IN
                      /\ r \in Nodes /\ kids[r] # <<>> /\ kids'[r] # <<>>
                      /\ Head(kids'[r]) = Head(kids[r])
    BY Zenon
  <2> DEFINE r == SubSeq(q, 1, i - 1)
  <2>1. r \in Nodes /\ kids[r] # <<>>
    BY DEF Prefixed
  <2> HIDE DEF r
  <2>2. kids'[r] # <<>> /\ Head(kids'[r]) = Head(kids[r])
    BY <1>5, <2>1
  <2> QED
    BY <2>1, <2>2 DEF r
<1>7. \A i \in 1..(Len(p) + 1) : i \in 1..Len(p) \/ (i = Len(p) + 1 /\ i - 1 = Len(p))
  BY <1>3
<1>8. Prefixed'
  <2> SUFFICES ASSUME NEW q \in Nodes', NEW i \in DOMAIN q
               PROVE  SubSeq(q, 1, i - 1) \in Nodes' /\ kids'[SubSeq(q, 1, i - 1)] # <<>>
    BY DEF Prefixed
  <2>1. CASE q \in Nodes
    BY <1>1, <1>6, <2>1
  <2>2. CASE q = c /\ i \in 1..Len(p)
    <3> DEFINE r == SubSeq(p, 1, i - 1)
    <3>1. SubSeq(q, 1, i - 1) = r /\ i \in DOMAIN p
      BY <1>3, <2>2
    <3>2. r \in Nodes /\ kids'[r] # <<>>
      BY <1>6, <3>1
    <3> HIDE DEF r
    <3> QED
      BY <1>1, <3>1, <3>2
  <2>3. CASE q = c /\ i = Len(p) + 1 /\ i - 1 = Len(p)
    BY <1>1, <1>3, <1>4, <2>3
  <2> QED
    BY <1>1, <1>3, <1>7, <2>1, <2>2, <2>3
<1>9. \A q \in Nodes : q \in Mainline' <=> q \in Mainline
  BY <1>1, <1>6 DEF Mainline
<1>10. c \in Mainline' <=> p \in Mainline /\ kids[p] = <<>>
  <2>1. c \in Mainline' <=> \A i \in 1..(Len(p) + 1) : c[i] = Head(kids'[SubSeq(c, 1, i - 1)])
    BY <1>1, <1>3 DEF Mainline
  <2>2. \A i \in 1..Len(p) : /\ i \in 1..(Len(p) + 1)
                             /\ c[i] = Head(kids'[SubSeq(c, 1, i - 1)]) <=> p[i] = Head(kids[SubSeq(p, 1, i - 1)])
    <3> SUFFICES ASSUME NEW i \in 1..Len(p)
                 PROVE /\ i \in 1..(Len(p) + 1)
                       /\ c[i] = Head(kids'[SubSeq(c, 1, i - 1)]) <=> p[i] = Head(kids[SubSeq(p, 1, i - 1)])
      BY Zenon
    <3> DEFINE r == SubSeq(p, 1, i - 1)
    <3>1. SubSeq(c, 1, i - 1) = r /\ c[i] = p[i] /\ i \in DOMAIN p /\ i \in 1..(Len(p) + 1)
      BY <1>3
    <3>2. Head(kids'[r]) = Head(kids[r])
      BY <1>6, <3>1
    <3> HIDE DEF r
    <3> QED
      BY <3>1, <3>2 DEF r
  <2>3. c[Len(p) + 1] = Head(kids'[SubSeq(c, 1, (Len(p) + 1) - 1)]) <=> kids[p] = <<>>
    <3>1. (Len(p) + 1) - 1 = Len(p)
      BY <1>3
    <3>2. SubSeq(c, 1, (Len(p) + 1) - 1) = p
      BY <1>3, <3>1
    <3> QED
      BY <1>3, <1>4, <3>2
  <2>4. p \in Mainline <=> \A i \in 1..Len(p) : p[i] = Head(kids[SubSeq(p, 1, i - 1)])
    BY <1>1, <1>3 DEF Mainline
  <2>5. Len(p) + 1 \in 1..(Len(p) + 1)
    BY <1>3
  <2> QED
    BY <1>7, <2>1, <2>2, <2>3, <2>4, <2>5
<1>11. ASSUME NEW q \in Nodes PROVE Full(q) => Full(q)'
  <2>1. CASE q = p
    <3>1. Elements(kids[p]) \subseteq Elements(kids'[p])
      BY <1>1, <1>2, ElementsGrow
    <3> QED
      BY <1>1, <2>1, <3>1 DEF Full, Available
  <2>2. CASE q # p
    BY <1>1, <2>2 DEF Full, Available
  <2> QED
    BY <2>1, <2>2
<1>12. \A q \in Nodes : q # p => (DealtTo(q)' <=> DealtTo(q))
  BY <1>1, <1>9 DEF DealtTo
<1>13. p \in Mainline /\ kids[p] = <<>> => ~DealtTo(c)'
  BY <1>1, <1>10 DEF DealtTo
<1>14. p \notin Mainline /\ kids[p] = <<>> => ~DealtTo(p)'
  BY <1>4, <1>9 DEF DealtTo
<1> QED
  BY <1>4, <1>8, <1>9, <1>10, <1>11, <1>12, <1>13, <1>14 DEF c

LEMMA RefusedInit == ASSUME Init PROVE RefusedInv
<1>1. PICK g \in Games : open = [p \in {<<>>} |-> LegalMoves(g.start)]
  BY DEF Init, Only
<1>2. kids = [p \in {<<>>} |-> <<>>] /\ cursor = <<>> /\ phase = "mainline"
      /\ positions = <<>> /\ ends = <<>> /\ agenda = <<>> /\ dealt = 0 /\ at = 1
  BY DEF Init, Only
<1>3. Nodes = {<<>>} /\ DOMAIN kids = {<<>>} /\ kids[<<>>] = <<>>
  BY <1>1, <1>2 DEF Nodes
<1>4. DOMAIN <<>> = {} /\ Elements(<<>>) = {}
  BY DEF Elements
<1>5. <<>> \in Mainline
  BY <1>3, <1>4 DEF Mainline
<1>6. ~DealtTo(<<>>)
  BY <1>3, <1>5 DEF DealtTo
<1>7. Prefixed /\ OffTip /\ Sidelines /\ Scanned /\ Covered
  BY <1>2, <1>3, <1>4, <1>5, <1>6 DEF Prefixed, OffTip, Sidelines, Scanned, Covered
<1> QED
  BY <1>7, TreeInit DEF RefusedInv

LEMMA StillKeeps ==
  ASSUME Prefixed, UNCHANGED tree
  PROVE  /\ Prefixed' /\ Nodes' = Nodes /\ kids' = kids /\ open' = open /\ Mainline' = Mainline
         /\ \A q \in Nodes : (Full(q)' <=> Full(q)) /\ (DealtTo(q)' <=> DealtTo(q))
  BY DEF tree, Prefixed, Nodes, Mainline, Full, Available, DealtTo

LEMMA QueuesKnown ==
  ASSUME Known
  PROVE  /\ Elements(positions) \subseteq Nodes /\ Elements(ends) \subseteq Nodes /\ Elements(agenda) \subseteq Nodes
         /\ \A i \in DOMAIN positions : positions[i] \in Elements(positions)
         /\ DOMAIN positions = 1..Len(positions) /\ Len(positions) \in Nat
<1>1. \A S : \A s \in Seq(S) : Elements(s) \subseteq S
  BY DEF Elements
<1>2. \A i \in DOMAIN positions : positions[i] \in Elements(positions)
  BY DEF Elements
<1> QED
  BY <1>1, <1>2 DEF Known

LEMMA RefusedNext == ASSUME RefusedInv, [Next]_vars PROVE RefusedInv'
<1>1. TreeInv'
  BY TreeNext DEF RefusedInv
<1>2. /\ TreeOK /\ Tip /\ ConservedInv /\ Known /\ cursor \in Nodes /\ Nodes \subseteq Seq(Moves)
      /\ positions \in Seq(Nodes) /\ ends \in Seq(Nodes) /\ agenda \in Seq(Nodes) /\ at \in Nat \ {0} /\ remaining \in Nat
      /\ Prefixed /\ OffTip /\ Sidelines /\ Scanned /\ Covered
  BY DEF RefusedInv, TreeInv, TreeOK, ConservedInv, Known, Numbers
<1>3. /\ Elements(positions) \subseteq Nodes /\ Elements(ends) \subseteq Nodes /\ Elements(agenda) \subseteq Nodes
      /\ \A i \in DOMAIN positions : positions[i] \in Elements(positions)
      /\ DOMAIN positions = 1..Len(positions) /\ Len(positions) \in Nat
  BY <1>2, QueuesKnown
<1>4. kids[cursor] = <<>> => Available(cursor) = open[cursor]
  BY DEF Available, Elements
<1>5. ASSUME NEW p \in Nodes, Available(p) # {}, remaining > 0, WritePly(p, Available(p)), NEW c, c = cursor'
      PROVE  /\ Prefixed' /\ kids'[p] # <<>> /\ Nodes' = Nodes \cup {c}
             /\ \A q \in Nodes : /\ q \in Mainline' <=> q \in Mainline
                                 /\ Full(q) => Full(q)'
                                 /\ q # p => (DealtTo(q)' <=> DealtTo(q)) /\ kids'[q] = kids[q]
             /\ c \in Mainline' => p \in Mainline /\ kids[p] = <<>>
             /\ p \in Mainline /\ kids[p] = <<>> => c \in Mainline' /\ ~DealtTo(c)'
             /\ p \notin Mainline /\ kids[p] = <<>> => ~DealtTo(p)'
  <2>1. PICK m \in Available(p) : Growth(p, m)
    BY <1>2, <1>5, WriteGrows
  <2>2. c = Append(p, m) /\ Nodes' = Nodes \cup {c} /\ \A q \in Nodes : q # p => kids'[q] = kids[q]
    BY <1>5, <2>1 DEF Growth
  <2>3. /\ Prefixed' /\ kids'[p] # <<>>
        /\ \A q \in Nodes : /\ q \in Mainline' <=> q \in Mainline
                            /\ Full(q) => Full(q)'
                            /\ q # p => (DealtTo(q)' <=> DealtTo(q))
        /\ Append(p, m) \in Mainline' => p \in Mainline /\ kids[p] = <<>>
        /\ p \in Mainline /\ kids[p] = <<>> => Append(p, m) \in Mainline' /\ ~DealtTo(Append(p, m))'
        /\ p \notin Mainline /\ kids[p] = <<>> => ~DealtTo(p)'
    BY <1>2, <2>1, GrowthKeeps
  <2>4. DealtTo(c)' <=> DealtTo(Append(p, m))'
    BY <2>2
  <2> QED
    BY <2>2, <2>3, <2>4
<1>6. CASE MainPly
  <2>1. /\ WritePly(cursor, Available(cursor)) /\ Available(cursor) # {} /\ remaining > 0 /\ kids[cursor] = <<>>
        /\ phase = "mainline" /\ phase' = "mainline" /\ positions' = Append(positions, cursor)
        /\ UNCHANGED <<at, dealt, progress, ends, agenda>>
    BY <1>2, <1>4, <1>6 DEF MainPly, CanExtend, Tip
  <2>2. cursor \in Mainline /\ at = 1
    BY <1>2, <2>1 DEF Sidelines, Scanned
  <2>c. PICK c : c = cursor'
    OBVIOUS
  <2>3. /\ Prefixed' /\ kids'[cursor] # <<>> /\ Nodes' = Nodes \cup {c}
        /\ \A q \in Nodes : /\ q \in Mainline' <=> q \in Mainline
                            /\ Full(q) => Full(q)'
                            /\ q # cursor => (DealtTo(q)' <=> DealtTo(q)) /\ kids'[q] = kids[q]
        /\ c \in Mainline' /\ ~DealtTo(c)'
    BY <2>c, <1>2, <1>5, <2>1, <2>2
  <2>4. Elements(positions') = Elements(positions) \cup {cursor}
    BY <1>2, <2>1, ElementsGrow
  <2>5. OffTip'
    BY <1>2, <1>3, <2>3, <2>4 DEF OffTip
  <2>6. Sidelines'
    BY <2>c, <1>2, <1>3, <2>1, <2>3 DEF Sidelines
  <2>7. Scanned'
    <3>1. positions' \in Seq(Nodes)
      BY <1>2, <2>1
    <3>2. \A i \in DOMAIN positions' : ~(i < 1)
      BY <3>1
    <3> QED
      BY <1>2, <2>1, <2>2, <3>2 DEF Scanned
  <2>8. ASSUME NEW q \in Nodes', DealtTo(q)' PROVE Full(q)' \/ Waits(q)'
    <3>1. CASE q = cursor
      BY <2>1, <2>4, <3>1 DEF Waits
    <3>2. CASE q \in Nodes /\ q # cursor
      <4>1. Full(q) \/ Waits(q)
        BY <1>2, <2>1, <2>3, <2>8, <3>2 DEF Covered
      <4>2. Waits(q) => Waits(q)'
        BY <2>1, <2>4 DEF Waits
      <4> QED
        BY <2>3, <3>2, <4>1, <4>2
    <3> QED
      BY <2>3, <2>8, <3>1, <3>2
  <2> QED
    BY <1>1, <2>3, <2>5, <2>6, <2>7, <2>8 DEF RefusedInv, Covered
<1>7. CASE AddVariation
  <2>c. PICK c : c = cursor'
    OBVIOUS
  <2>p. PICK p : p = positions[at]
    OBVIOUS
  <2>1. /\ p \in Nodes /\ p \in Elements(positions)
    <3>1. at \in DOMAIN positions
      BY <1>2, <1>3, <1>7 DEF AddVariation
    <3> QED
      BY <1>3, <2>p, <3>1
  <2>2. /\ WritePly(p, Available(p)) /\ Available(p) # {} /\ remaining > 0
        /\ phase = "round" /\ phase' = "branch" /\ dealt' = dealt + 1 /\ progress' = TRUE
        /\ UNCHANGED <<positions, at, ends, agenda>>
    BY <1>7, <2>p DEF AddVariation, TakesMore, Here
  <2>3. /\ Prefixed' /\ kids'[p] # <<>> /\ Nodes' = Nodes \cup {c}
        /\ \A q \in Nodes : /\ q \in Mainline' <=> q \in Mainline
                            /\ Full(q) => Full(q)'
                            /\ q # p => (DealtTo(q)' <=> DealtTo(q)) /\ kids'[q] = kids[q]
        /\ c \in Mainline' => p \in Mainline /\ kids[p] = <<>>
    BY <2>c, <1>5, <2>1, <2>2
  <2>4. c \notin Mainline'
    BY <1>2, <2>1, <2>3 DEF OffTip
  <2>5. OffTip'
    BY <1>2, <1>3, <2>2, <2>3 DEF OffTip
  <2>6. Sidelines'
    BY <2>c, <1>2, <1>3, <2>2, <2>3, <2>4 DEF Sidelines
  <2>7. Scanned'
    BY <1>2, <2>2 DEF Scanned
  <2>8. ASSUME NEW q \in Nodes', DealtTo(q)' PROVE Full(q)' \/ Waits(q)'
    <3>1. CASE q = p
      BY <2>1, <2>2, <3>1 DEF Waits
    <3>2. CASE q = c
      BY <2>c, <2>2, <3>2 DEF Waits
    <3>3. CASE q \in Nodes /\ q # p
      <4>1. Full(q) \/ Waits(q)
        BY <1>2, <2>2, <2>3, <2>8, <3>3 DEF Covered
      <4>2. Waits(q) => Waits(q)'
        BY <2>2 DEF Waits
      <4> QED
        BY <2>3, <3>3, <4>1, <4>2
    <3> QED
      BY <2>3, <3>1, <3>2, <3>3
  <2> QED
    BY <1>1, <2>3, <2>5, <2>6, <2>7, <2>8 DEF RefusedInv, Covered
<1>8. CASE BranchPly
  <2>1. /\ WritePly(cursor, Available(cursor)) /\ Available(cursor) # {} /\ remaining > 0 /\ kids[cursor] = <<>>
        /\ phase = "branch" /\ phase' = "branch" /\ UNCHANGED <<positions, at, dealt, progress, ends, agenda>>
    BY <1>2, <1>4, <1>8 DEF BranchPly, CanExtend, Tip, level
  <2>2. cursor \notin Mainline /\ progress
    BY <1>2, <2>1 DEF Sidelines, Scanned
  <2>c. PICK c : c = cursor'
    OBVIOUS
  <2>p. PICK p \in Nodes : p = cursor
    BY <1>2
  <2>3. /\ Prefixed' /\ kids'[p] # <<>> /\ Nodes' = Nodes \cup {c}
        /\ \A q \in Nodes : /\ q \in Mainline' <=> q \in Mainline
                            /\ Full(q) => Full(q)'
                            /\ q # p => (DealtTo(q)' <=> DealtTo(q)) /\ kids'[q] = kids[q]
        /\ c \notin Mainline' /\ ~DealtTo(p)'
    BY <2>c, <2>p, <1>2, <1>5, <2>1, <2>2
  <2>4. OffTip'
    BY <1>2, <1>3, <2>1, <2>p, <2>3 DEF OffTip
  <2>5. Sidelines'
    BY <2>c, <1>2, <1>3, <2>1, <2>3 DEF Sidelines
  <2>6. Scanned'
    BY <1>2, <2>1, <2>2 DEF Scanned
  <2>7. ASSUME NEW q \in Nodes', DealtTo(q)' PROVE Full(q)' \/ Waits(q)'
    <3>1. CASE q = c
      BY <2>c, <2>1, <3>1 DEF Waits
    <3>2. CASE q \in Nodes /\ q # p
      <4>1. Full(q) \/ Waits(q)
        BY <1>2, <2>1, <2>3, <2>7, <3>2 DEF Covered
      <4>2. Waits(q) => Waits(q)'
        BY <2>1, <2>p, <3>2 DEF Waits
      <4> QED
        BY <2>3, <3>2, <4>1, <4>2
    <3> QED
      BY <2>3, <2>7, <3>1, <3>2
  <2> QED
    BY <1>1, <2>3, <2>4, <2>5, <2>6, <2>7 DEF RefusedInv, Covered
<1>9. ASSUME UNCHANGED <<tree, cursor, remaining>>, OffTip', Scanned',
             \A p \in Elements(ends') \cup Elements(agenda') : p \notin Mainline,
             phase' = "branch" => phase = "branch", phase' = "mainline" => phase = "mainline",
             \A q \in Nodes : remaining > 0 /\ DealtTo(q) /\ Waits(q) => Full(q) \/ Waits(q)'
      PROVE  RefusedInv'
  <2>1. /\ Prefixed' /\ Nodes' = Nodes /\ Mainline' = Mainline
        /\ \A q \in Nodes : (Full(q)' <=> Full(q)) /\ (DealtTo(q)' <=> DealtTo(q))
    BY <1>2, <1>9, StillKeeps
  <2>2. Sidelines'
    BY <1>2, <1>9, <2>1 DEF Sidelines
  <2>3. Covered'
    BY <1>2, <1>9, <2>1 DEF Covered
  <2> QED
    BY <1>1, <1>9, <2>1, <2>2, <2>3 DEF RefusedInv
<1>10. ASSUME UNCHANGED <<tree, positions>> PROVE OffTip'
  <2>1. Mainline' = Mainline /\ kids' = kids
    BY <1>2, <1>10, StillKeeps
  <2> QED
    BY <1>2, <1>10, <2>1 DEF OffTip
<1>11. ASSUME UNCHANGED tree, NEW q \in Nodes PROVE Full(q)' <=> Full(q)
  BY <1>2, <1>11, StillKeeps
<1>12. Elements(<<>>) = {}
  BY DEF Elements
<1>13. CASE EndMainline
  <2>1. UNCHANGED <<tree, cursor, remaining, positions, agenda>> /\ phase = "mainline"
    BY <1>13 DEF EndMainline, Deal, level, digits
  <2>2. OffTip'
    BY <1>10, <2>1
  <2>3. CASE remaining = 0
    <3>1. phase' = "done" /\ UNCHANGED <<ends, at, dealt, progress>>
      BY <1>13, <2>3 DEF EndMainline, level
    <3>2. Scanned'
      BY <1>2, <2>1, <2>3, <3>1 DEF Scanned
    <3> QED
      BY <1>2, <1>9, <2>1, <2>2, <2>3, <3>1, <3>2 DEF Sidelines
  <2>4. CASE remaining # 0
    <3>1. phase' = "round" /\ at' = 1 /\ dealt' = 0 /\ ends' = <<>>
      BY <1>13, <2>4 DEF EndMainline, Deal
    <3>2. Scanned'
      <4>1. \A i \in DOMAIN positions : ~(i < 1)
        BY <1>3
      <4> QED
        BY <2>1, <3>1, <4>1 DEF Scanned
    <3>3. \A q \in Nodes : Waits(q) => Waits(q)'
      BY <2>1, <3>1 DEF Waits
    <3> QED
      BY <1>2, <1>9, <1>12, <2>1, <2>2, <3>1, <3>2, <3>3 DEF Sidelines
  <2> QED
    BY <2>3, <2>4
<1>14. CASE EndBranch
  <2>1. /\ UNCHANGED <<tree, cursor, remaining, positions, at, dealt, progress, agenda>>
        /\ phase = "branch" /\ phase' = "round" /\ ends' = Append(ends, cursor)
    BY <1>14 DEF EndBranch, digits
  <2>2. OffTip'
    BY <1>10, <2>1
  <2>3. Elements(ends') = Elements(ends) \cup {cursor}
    BY <1>2, <2>1, ElementsGrow
  <2>4. Scanned'
    BY <1>2, <2>1 DEF Scanned
  <2>5. \A q \in Nodes : Waits(q) => Waits(q)'
    BY <2>1, <2>3 DEF Waits
  <2> QED
    BY <1>2, <1>9, <2>1, <2>2, <2>3, <2>4, <2>5 DEF Sidelines
<1>15. CASE NextPosition
  <2>1. /\ UNCHANGED <<tree, cursor, remaining, positions, progress, ends, agenda, phase>>
        /\ phase = "round" /\ at <= Len(positions) /\ ~TakesMore(Here) /\ at' = at + 1 /\ dealt' = 0
    BY <1>15 DEF NextPosition, digits
  <2>2. OffTip'
    BY <1>10, <2>1
  <2>3. Scanned'
    <3>1. ASSUME ~progress, remaining > 0, NEW i \in DOMAIN positions, i < at + 1 PROVE Full(positions[i])
      <4>1. CASE i < at
        BY <1>2, <3>1, <4>1 DEF Scanned
      <4>2. CASE i = at
        <5>1. dealt < PerRound
          BY <1>2, <3>1, LimitsAssumption DEF Scanned
        <5> QED
          BY <2>1, <3>1, <4>2, <5>1 DEF TakesMore, Here, Full
      <4> QED
        BY <1>2, <1>3, <3>1, <4>1, <4>2
    <3>2. \A i \in DOMAIN positions : Full(positions[i])' <=> Full(positions[i])
      <4>1. positions' = positions /\ UNCHANGED tree
        BY <2>1
      <4>2. \A i \in DOMAIN positions : positions[i] \in Nodes
        BY <1>3
      <4>3. open' = open /\ kids' = kids
        BY <4>1 DEF tree
      <4> QED
        BY <4>1, <4>3 DEF Full, Available
    <3> QED
      BY <2>1, <3>1, <3>2 DEF Scanned
  <2>4. \A q \in Nodes : Waits(q) => Waits(q)'
    BY <2>1 DEF Waits
  <2> QED
    BY <1>2, <1>9, <2>1, <2>2, <2>3, <2>4 DEF Sidelines
<1>16. CASE NextRound
  <2>1. /\ UNCHANGED <<tree, cursor, remaining, positions, ends, agenda, phase>>
        /\ phase = "round" /\ at' = 1 /\ dealt' = 0
    BY <1>16 DEF NextRound, digits
  <2>2. OffTip'
    BY <1>10, <2>1
  <2>3. Scanned'
    <3>1. \A i \in DOMAIN positions : ~(i < 1)
      BY <1>3
    <3> QED
      BY <2>1, <3>1 DEF Scanned
  <2>4. \A q \in Nodes : Waits(q) => Waits(q)'
    BY <2>1 DEF Waits
  <2> QED
    BY <1>2, <1>9, <2>1, <2>2, <2>3, <2>4 DEF Sidelines
<1>17. CASE EndLevel
  <2>1. /\ UNCHANGED <<tree, cursor, remaining, positions, at, dealt, progress, ends>>
        /\ phase = "round" /\ phase' = "descend" /\ at > Len(positions) /\ (remaining = 0 \/ ~progress)
        /\ agenda' = ends \o agenda
    BY <1>17 DEF EndLevel, digits
  <2>2. OffTip'
    BY <1>10, <2>1
  <2>3. Elements(agenda') = Elements(ends) \cup Elements(agenda)
    BY <1>2, <2>1, ElementsJoin
  <2>4. Scanned'
    <3>1. open' = open /\ kids' = kids
      BY <2>1 DEF tree
    <3> QED
      BY <1>2, <2>1, <3>1 DEF Scanned, Full, Available
  <2>5. ASSUME remaining > 0, NEW q \in Nodes, Waits(q) PROVE Full(q) \/ Waits(q)'
    <3>1. CASE q \in Elements(positions)
      <4>1. PICK i \in DOMAIN positions : q = positions[i]
        BY <3>1 DEF Elements
      <4>2. i < at
        BY <1>2, <1>3, <2>1, <4>1
      <4> QED
        BY <1>2, <2>1, <2>5, <4>1, <4>2 DEF Scanned
    <3>2. CASE q \notin Elements(positions)
      BY <2>1, <2>3, <2>5, <3>2 DEF Waits
    <3> QED
      BY <3>1, <3>2
  <2> QED
    BY <1>2, <1>9, <2>1, <2>2, <2>3, <2>4, <2>5 DEF Sidelines
<1>18. CASE Descend
  <2> DEFINE h == Head(agenda)
  <2>1. /\ UNCHANGED <<tree, cursor, remaining>> /\ phase = "descend" /\ phase' = "round" /\ agenda # <<>>
        /\ positions' = (IF open[h] = {} THEN <<>> ELSE <<h>>)
        /\ at' = 1 /\ dealt' = 0 /\ ends' = <<>> /\ agenda' = Tail(agenda)
    BY <1>18 DEF Descend, Deal, digits
  <2>2. Elements(agenda) = {h} \cup Elements(agenda')
    BY <1>2, <2>1, ElementsOfTail
  <2> HIDE DEF h
  <2>3. h \notin Mainline
    BY <1>2, <2>2 DEF Sidelines
  <2>4. Elements(positions') = (IF open[h] = {} THEN {} ELSE {h}) /\ \A i \in DOMAIN positions' : ~(i < 1)
    <3>1. CASE open[h] = {}
      BY <1>12, <2>1, <3>1
    <3>2. CASE open[h] # {}
      <4>1. positions' = <<h>>
        BY <2>1, <3>2
      <4>2. DOMAIN <<h>> = {1} /\ <<h>>[1] = h
        OBVIOUS
      <4> QED
        BY <3>2, <4>1, <4>2 DEF Elements
    <3> QED
      BY <3>1, <3>2
  <2>5. OffTip'
    <3>1. Mainline' = Mainline
      BY <1>2, <2>1, StillKeeps
    <3> QED
      BY <2>3, <2>4, <3>1 DEF OffTip
  <2>6. Scanned'
    BY <2>1, <2>4 DEF Scanned
  <2>7. ASSUME NEW q \in Nodes, Waits(q) PROVE Full(q) \/ Waits(q)'
    <3>1. q \in {h} \cup Elements(agenda')
      BY <2>1, <2>2, <2>7 DEF Waits
    <3>2. CASE q = h /\ open[h] = {}
      BY <3>2 DEF Full, Available
    <3>3. CASE q = h /\ open[h] # {}
      BY <2>1, <2>4, <3>3 DEF Waits
    <3>4. CASE q \in Elements(agenda')
      BY <2>1, <3>4 DEF Waits
    <3> QED
      BY <3>1, <3>2, <3>3, <3>4
  <2> QED
    BY <1>2, <1>9, <1>12, <2>1, <2>2, <2>5, <2>6, <2>7 DEF Sidelines
<1>19. CASE Finish
  <2>1. /\ UNCHANGED <<tree, cursor, remaining, positions, at, dealt, progress, ends, agenda>>
        /\ phase = "descend" /\ (remaining = 0 \/ agenda = <<>>) /\ phase' = IF remaining = 0 THEN "done" ELSE "failed"
    BY <1>19 DEF Finish, digits, level
  <2>2. OffTip'
    BY <1>10, <2>1
  <2>3. Scanned'
    <3>1. open' = open /\ kids' = kids
      BY <2>1 DEF tree
    <3> QED
      BY <1>2, <2>1, <3>1 DEF Scanned, Full, Available
  <2>4. \A q \in Nodes : remaining > 0 => ~Waits(q)
    BY <1>2, <1>12, <2>1 DEF Waits
  <2> QED
    BY <1>2, <1>9, <2>1, <2>2, <2>3, <2>4 DEF Sidelines
<1>20. CASE UNCHANGED vars
  <2>1. UNCHANGED <<tree, cursor, remaining, positions, at, dealt, progress, ends, agenda, phase>>
    BY <1>20 DEF vars, digits, level
  <2>2. OffTip'
    BY <1>10, <2>1
  <2>3. Scanned'
    <3>1. open' = open /\ kids' = kids
      BY <2>1 DEF tree
    <3> QED
      BY <1>2, <2>1, <3>1 DEF Scanned, Full, Available
  <2>4. \A q \in Nodes : Waits(q) => Waits(q)'
    BY <2>1 DEF Waits
  <2> QED
    BY <1>2, <1>9, <2>1, <2>2, <2>3, <2>4 DEF Sidelines
<1> QED
  BY <1>6, <1>7, <1>8, <1>13, <1>14, <1>15, <1>16, <1>17, <1>18, <1>19, <1>20 DEF Next

\* Whatever the number, the position and the limits, a number is refused only
\* when every node the encoder deals to is out of moves: no position is passed
\* by in a round, no endpoint left out of the descent
\* (_distribute_variations_recursive).
THEOREM RefusedWhenFull == Spec => []RefusedOnlyWhenFull
<1>1. RefusedInv => RefusedOnlyWhenFull
  <2> SUFFICES ASSUME RefusedInv, phase = "failed", NEW p \in DOMAIN kids, DealtTo(p) PROVE Available(p) = {}
    BY DEF RefusedOnlyWhenFull
  <2>1. p \in Nodes /\ remaining \in Nat /\ remaining # 0
    BY DEF RefusedInv, TreeInv, TreeOK, ConservedInv, Numbers, Scanned
  <2>2. Full(p) \/ Waits(p)
    BY <2>1 DEF RefusedInv, Covered
  <2> QED
    BY <2>2 DEF Waits, Full
<1> QED
  BY RefusedInit, RefusedNext, <1>1, PTL DEF Spec

-----------------------------------------------------------------------------
\* Digits.
LEMMA DigitStays ==
  ASSUME TreeInv, remaining > 0, NEW p \in Nodes, Available(p) # {}, WritePly(p, Available(p))
  PROVE  DigitWritten
<1>1. /\ TreeOK /\ ConservedInv /\ DOMAIN kids = Nodes /\ remaining \in Nat /\ capacity \in Nat \ {0}
      /\ \A q \in Nodes : Grown(q) /\ Positioned(q)
  BY DEF TreeInv, TreeOK, ConservedInv, Numbers
<1>2. PICK m \in Available(p) : IndexIn(Available(p), m) = Digit(Cardinality(Available(p))) /\ Growth(p, m)
  BY <1>1, WriteGrows
<1>3. /\ kids'[p] = Append(kids[p], m)
      /\ \A q \in Nodes : open'[q] = open[q] /\ (q # p => kids'[q] = kids[q])
  BY <1>2 DEF Growth
<1> DEFINE n == Len(kids[p])
           k == Cardinality(Available(p))
<1>4. /\ DOMAIN kids[p] = 1..n /\ n \in Nat /\ Len(kids'[p]) = n + 1
      /\ kids'[p][n + 1] = m /\ \A i \in 1..n : kids'[p][i] = kids[p][i]
  <2>1. kids[p] \in Seq(open[p])
    BY <1>1 DEF Grown
  <2> QED
    BY <1>3, <2>1, SequenceGrows
<1> HIDE DEF n
<1>5. ASSUME NEW q \in Nodes, NEW i \in DOMAIN kids[q] PROVE ReadAt(q, i)' = ReadAt(q, i)
  <2>1. open'[q] = open[q]
    BY <1>3
  <2>2. CASE q # p
    <3>1. kids'[q] = kids[q]
      BY <1>3, <2>2
    <3> QED
      BY <2>1, <3>1 DEF ReadAt
  <2>3. CASE q = p
    <3>1. i \in 1..n /\ \A j \in 1..(i - 1) : j \in 1..n
      BY <1>4, <1>5, <2>3
    <3>2. kids'[q][i] = kids[q][i] /\ \A j \in 1..(i - 1) : kids'[q][j] = kids[q][j]
      BY <1>4, <2>3, <3>1
    <3>3. {kids'[q][j] : j \in 1..(i - 1)} = {kids[q][j] : j \in 1..(i - 1)}
      BY <3>2
    <3> QED
      BY <2>1, <3>2, <3>3 DEF ReadAt
  <2> QED
    BY <2>2, <2>3
<1>6. ReadAt(p, Len(kids[p]))' = DigitOf(Available(p), m)
  <2>1. ReadAt(p, Len(kids[p]))' = DigitOf(open'[p] \ {kids'[p][j] : j \in 1..(Len(kids'[p]) - 1)}, kids'[p][Len(kids'[p])])
    BY DEF ReadAt
  <2>2. Len(kids'[p]) - 1 = n /\ kids'[p][Len(kids'[p])] = m
    BY <1>4
  <2>3. {kids'[p][j] : j \in 1..n} = Elements(kids[p])
    BY <1>4 DEF Elements
  <2>4. open'[p] = open[p]
    BY <1>3
  <2> QED
    BY <2>1, <2>2, <2>3, <2>4 DEF Available
<1>7. Available(p) \in SUBSET Moves
  BY <1>1, LegalTyped DEF Available, Positioned
<1>8. k \in Nat \ {0}
  BY <1>7, MoveSetsFinite, FS_EmptySet
<1>9. DigitOf(Available(p), m).index = Digit(k) /\ DigitOf(Available(p), m).base = k
  BY <1>2 DEF DigitOf
<1>10. remaining' = (remaining - 1) \div k
  BY DEF WritePly, Spend
<1> HIDE DEF k
<1>11. Digit(k) < k /\ remaining = remaining' * k + Digit(k) + 1
  <2>1. remaining \in Nat \ {0}
    BY <1>1
  <2>2. Digit(k) = (remaining - 1) % k
    BY DEF Digit
  <2>3. remaining = ((remaining - 1) \div k) * k + ((remaining - 1) % k) + 1
    BY <1>8, <2>1, LastDigit
  <2>4. (remaining - 1) % k < k
    BY <1>8, <2>1
  <2> QED
    BY <1>10, <2>2, <2>3, <2>4
<1>12. kids'[p] # kids[p]
  BY <1>4 DEF n
<1>13. \E q \in {q \in DOMAIN kids : kids'[q] # kids[q]} :
          LET d == ReadAt(q, Len(kids[q]))' IN d.index < d.base /\ remaining = remaining' * d.base + d.index + 1
  <2> DEFINE d == ReadAt(p, Len(kids[p]))'
  <2>1. d.index = Digit(k) /\ d.base = k
    BY <1>6, <1>9
  <2> HIDE DEF d
  <2>2. d.index < d.base /\ remaining = remaining' * d.base + d.index + 1
    BY <1>11, <2>1
  <2> QED
    BY <1>1, <1>12, <2>2 DEF d
<1> QED
  BY <1>1, <1>5, <1>13 DEF DigitWritten

LEMMA DigitStep == ASSUME TreeInv, Next PROVE DigitWritten
<1>1. /\ ConservedInv /\ Tip /\ cursor \in Nodes
      /\ kids[cursor] = <<>> => Available(cursor) = open[cursor]
  BY DEF TreeInv, ConservedInv, Known, Available, Elements
<1>2. CASE MainPly
  <2>1. WritePly(cursor, Available(cursor)) /\ Available(cursor) # {} /\ remaining > 0
    BY <1>1, <1>2 DEF MainPly, CanExtend, Tip
  <2> QED
    BY <1>1, <2>1, DigitStays
<1>3. CASE AddVariation
  <2>1. Here \in Nodes
    BY <1>1, <1>3 DEF AddVariation, Here, ConservedInv, Known
  <2>2. WritePly(Here, Available(Here)) /\ Available(Here) # {} /\ remaining > 0
    BY <1>3 DEF AddVariation, TakesMore
  <2> QED
    BY <2>1, <2>2, DigitStays
<1>4. CASE BranchPly
  <2>1. WritePly(cursor, Available(cursor)) /\ Available(cursor) # {} /\ remaining > 0
    BY <1>1, <1>4 DEF BranchPly, CanExtend, Tip
  <2> QED
    BY <1>1, <2>1, DigitStays
<1>5. ASSUME UNCHANGED tree, UNCHANGED remaining PROVE DigitWritten
  <2>1. \A p \in DOMAIN kids : \A i \in DOMAIN kids[p] : ReadAt(p, i)' = ReadAt(p, i)
    BY <1>5 DEF tree, ReadAt
  <2> QED
    BY <1>5, <2>1 DEF DigitWritten
<1>6. CASE EndMainline
  BY <1>5, <1>6 DEF EndMainline, digits
<1>7. CASE EndBranch
  BY <1>5, <1>7 DEF EndBranch, digits
<1>8. CASE NextPosition
  BY <1>5, <1>8 DEF NextPosition, digits
<1>9. CASE NextRound
  BY <1>5, <1>9 DEF NextRound, digits
<1>10. CASE EndLevel
  BY <1>5, <1>10 DEF EndLevel, digits
<1>11. CASE Descend
  BY <1>5, <1>11 DEF Descend, digits
<1>12. CASE Finish
  BY <1>5, <1>12 DEF Finish, digits
<1> QED
  BY <1>2, <1>3, <1>4, <1>6, <1>7, <1>8, <1>9, <1>10, <1>11, <1>12 DEF Next

\* For any numbers, starting positions and limits: every digit written is what
\* the decoder will read at that move, and no later move changes it
\* (_add_encoded_move, _decode_single_variation_with_endpoint).
THEOREM DigitsComeBack == Spec => DigitsReadBack
<1>1. TreeInv /\ [Next]_vars => [DigitWritten]_vars
  BY DigitStep
<1> QED
  BY TreeAlways, <1>1, PTL DEF Spec, DigitsReadBack
=============================================================================
