------------------------------- MODULE Board -------------------------------
(***************************************************************************)
(* The Sternhalma board (sternhalma/board/mod.rs): hexagonal cells named   *)
(* by axial coordinates <<i, j>>, each empty or holding a piece.  NoPlayer *)
(* marks an empty cell.  The shape of the board and the starting cells are *)
(* the tables of board/lut.rs.                                             *)
(***************************************************************************)
EXTENDS Players, Integers, FiniteSets

CONSTANTS Cells,        \* VALID_POSITIONS
          Start(_)      \* PLAYER1_ and PLAYER2_STARTING_POSITIONS

ASSUME BoardAssumption ==
    /\ IsFiniteSet(Cells)
    /\ \A p \in Players : Start(p) \subseteq Cells /\ Start(p) # {}
    /\ Start(Player1) \cap Start(Player2) = {}
    /\ Cardinality(Start(Player1)) = Cardinality(Start(Player2))

Boards == [Cells -> Players \cup {NoPlayer}]

\* Board::new
NewBoard == [x \in Cells |-> IF x \in Start(Player1) THEN Player1
                             ELSE IF x \in Start(Player2) THEN Player2
                             ELSE NoPlayer]

\* goal_indices
Goal(p) == Start(Opponent(p))

\* iter_player_indices
Pieces(b, p) == {x \in Cells : b[x] = p}

\* score
Score(b, p) == Cardinality(Goal(p) \cap Pieces(b, p))

\* Mutant of Won: any piece in the goal will do.
Filled(b, p) == \A x \in Goal(p) : b[x] # NoPlayer

Won(b, p) == Goal(p) \subseteq Pieces(b, p)

\* check_winner
Winner(b) == IF Won(b, Player1) THEN Player1
             ELSE IF Won(b, Player2) THEN Player2
             ELSE NoPlayer

\* apply_movement_unchecked: take the piece, then put it down.
MovePiece(b, from, to) ==
    [b EXCEPT ![from] = NoPlayer, ![to] = b[from]]

=============================================================================
