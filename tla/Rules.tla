------------------------------- MODULE Rules -------------------------------
(***************************************************************************)
(* The match played with the generator of Movement.tla, and the rules of   *)
(* the game against which the generator is checked, on every board the     *)
(* match reaches and for both players.                                     *)
(***************************************************************************)
EXTENDS Game, Movement

\* A player lifts a piece from x.  With the piece in hand at y, it can hop
\* over a piece halfway to the empty cell z.
Lift(x) == [board EXCEPT ![x] = NoPlayer]

Hops(b, y) ==
    {z \in {Beside(y, <<2 * d[1], 2 * d[2]>>) : d \in Directions} :
        Empty(b, z) /\ Occupied(b, <<(y[1] + z[1]) \div 2, (y[2] + z[2]) \div 2>>)}

\* The cells reached by hops from x, and x.
HopClosure(b, x) ==
    LET closure[S \in SUBSET Cells] ==
            LET reached == S \cup UNION {Hops(b, y) : y \in S}
            IN IF reached = S THEN S ELSE closure[reached]
    IN closure[{x}]

RuleMoves(p) ==
    UNION {{<<x, y>> : y \in {z \in Pieces(board, NoPlayer) :
                \/ \E d \in Directions : z = Beside(x, d)
                \/ z \in HopClosure(Lift(x), x)}}
            : x \in Pieces(board, p)}

\* README.md: a piece moves "to an adjacent empty position or jump[s] over an
\* arbitrary number of single pieces from any player".  The generator lists just these pairs of
\* cells, although it searches paths depth first, cuts those that cross
\* themselves, and leaves the moving piece on the board meanwhile.
GeneratorFollowsRules ==
    \A p \in Players : Movements(board, p) = RuleMoves(p)

\* What the generator lists is what apply_movement accepts from the player to
\* move, and refuses from the other one and after the end: the list the
\* server applies unchecked would pass the checked path too.
CheckedPathAgrees ==
    \A p \in Players : \A m \in IterPlayerMovements(board, p) :
        Outcome(m) = IF ~Playing THEN "GameFinished"
                     ELSE IF p = status.player THEN "Ok" ELSE "OutOfTurn"

\* Game::history has one entry for each turn counted, and these movements,
\* carried out one after the other on the array of a new board, lead to the
\* board of the match.
HistoryReplays ==
    /\ Len(history) = status.turns
    /\ FoldLeft(GridMove, NewGrid, history) = ToGrid(board)

\* On the array of the match, whatever the position: next_nw to next_w find the
\* cells beside a cell and no others, and iter_player_indices the cells of the
\* pieces.
GridIsTheBoard == Represents(ToGrid(board), board)

\* hex_distance is "how many steps it takes to get from one cell to another"
\* on the board as it is: it is zero for the cell itself only, no step changes
\* it by more than one, and from any other cell some step shortens it.  Cells
\* do not change, so the first state says it all.
DistanceIsSteps ==
    status.turns = 0 => \A y \in Cells : \A x \in Cells :
        LET beside == {HexDistance(z, y) : z \in Neighbors(EmptyGrid, x)}
            n      == HexDistance(x, y)
        IN /\ n = 0 <=> x = y
           /\ beside \subseteq (n - 1)..(n + 1)
           /\ x # y => n - 1 \in beside

\* The cells are those of a star: two triangles laid one over the other, each
\* with sides of 3 * k steps.
InStar(k, i, j) ==
    \/ i >= k /\ j >= k /\ i + j <= 5 * k
    \/ i <= 3 * k /\ j <= 3 * k /\ i + j >= 3 * k

StarShaped(k) ==
    Cells = {x \in (0..(4 * k)) \X (0..(4 * k)) : InStar(k, x[1], x[2])}

\* Half a turn maps the board to itself, and the cells where one player starts
\* to those of the other, as it does with the star.
Symmetric ==
    \A x \in Cells : LET y == <<BoardLength - 1 - x[1], BoardLength - 1 - x[2]>> IN
        y \in Cells /\ (x \in Start(Player1) <=> y \in Start(Player2))

\* The board as Player2 is shown it, as if it were Player1.
Shown == [x \in Cells |->
            LET q == board[Rotate(BoardLength, x)]
            IN IF q = NoPlayer THEN NoPlayer ELSE Opponent(q)]

\* Player2's movements, rotated as relative_movement does, are those of a
\* Player1 on the board Player2 is shown, and the pieces Player2 has in its goal
\* are those that Player1 has in its own: the Turn it receives makes sense to a
\* client that knows the rules and believes itself Player1, "at the bottom".
RotatedTurnMakesSense ==
    /\ {<<Rotate(BoardLength, m[1]), Rotate(BoardLength, m[2])>> :
            m \in Movements(board, Player2)} = Movements(Shown, Player1)
    /\ {Rotate(BoardLength, x) : x \in Goal(Player2) \cap Pieces(board, Player2)}
            = Goal(Player1) \cap Pieces(Shown, Player1)

=============================================================================
