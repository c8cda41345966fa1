-------------------------------- MODULE Grid --------------------------------
(***************************************************************************)
(* The representation of the board (sternhalma/board/mod.rs): one array of *)
(* BOARD_LENGTH rows of BOARD_LENGTH positions, which holds Outside where  *)
(* there is no cell, and the arithmetic on indices that stands for the     *)
(* geometry.  All indices are usize: a subtraction is checked, an addition *)
(* bounded.                                                                *)
(***************************************************************************)
EXTENDS Board

CONSTANTS BoardLength,      \* BOARD_LENGTH
          Outside           \* the None of Position: not a cell of the board

ASSUME GridAssumption ==
    /\ BoardLength \in Nat \ {0}
    /\ Cells \subseteq (0..(BoardLength - 1)) \X (0..(BoardLength - 1))
    /\ Outside \notin Players \cup {NoPlayer}

\* Index and IndexMut: the slot of the array
Index(x) == x[1] * BoardLength + x[2]

Slots == 0..(BoardLength * BoardLength - 1)

\* Board::empty
EmptyGrid ==
    [k \in Slots |-> IF \E x \in Cells : Index(x) = k THEN NoPlayer ELSE Outside]

\* place_pieces: set_piece on each of the indices
PlacePieces(g, S, p) ==
    [k \in Slots |-> IF \E x \in S : Index(x) = k THEN p ELSE g[k]]

\* Board::new
NewGrid == PlacePieces(PlacePieces(EmptyGrid, Start(Player1), Player1),
                       Start(Player2), Player2)

\* HexDirection: NW, NE, E, SE, SW, W
Directions == {<<-1, 0>>, <<-1, 1>>, <<0, 1>>, <<1, 0>>, <<1, -1>>, <<0, -1>>}

Beside(x, d) == <<x[1] + d[1], x[2] + d[2]>>

\* Mutant of InRange: it is the slot that must be in the array.
InArray(x) == Index(x) \in Slots

\* The conditions of next_nw to next_w: no subtraction below zero, no
\* addition up to BOARD_LENGTH.
InRange(x) == x[1] \in 0..(BoardLength - 1) /\ x[2] \in 0..(BoardLength - 1)

\* nearest_neighbor, in every direction: what the array holds is a position
\* of the board.
Neighbors(g, x) ==
    {y \in {Beside(x, d) : d \in Directions} :
        InRange(y) /\ g[Index(y)] # Outside}

\* iter_player_indices: slots of the array back to indices
IterPlayerIndices(g, p) ==
    {<<k \div BoardLength, k % BoardLength>> : k \in {s \in Slots : g[s] = p}}

\* apply_movement_unchecked: take the piece, then put it down.
GridMove(g, m) ==
    [[g EXCEPT ![Index(m[1])] = NoPlayer] EXCEPT ![Index(m[2])] = g[Index(m[1])]]

AbsDiff(a, b) == IF a < b THEN b - a ELSE a - b

\* Mutant of HexDistance: the third axis is forgotten.
BoxDistance(x, y) ==
    LET dq == AbsDiff(x[1], y[1])
        dr == AbsDiff(x[2], y[2])
    IN IF dq < dr THEN dr ELSE dq

\* hex_distance: the largest of the distances along the three axes
HexDistance(x, y) ==
    CHOOSE n \in {AbsDiff(x[1], y[1]), AbsDiff(x[2], y[2]),
                  AbsDiff(x[1] + x[2], y[1] + y[2])} :
        /\ AbsDiff(x[1], y[1]) <= n
        /\ AbsDiff(x[2], y[2]) <= n
        /\ AbsDiff(x[1] + x[2], y[1] + y[2]) <= n

\* The array of a board
ToGrid(b) ==
    [k \in Slots |-> IF \E x \in Cells : Index(x) = k
                     THEN b[CHOOSE x \in Cells : Index(x) = k]
                     ELSE Outside]

\* On the array g, the bounded arithmetic of indices finds the cells beside a
\* cell, with no step over the end of a row or of the board, and the div and
\* mod of a slot the cells of the pieces.
Represents(g, b) ==
    /\ \A x \in Cells :
        Neighbors(g, x) = {Beside(x, d) : d \in Directions} \cap Cells
    /\ \A p \in Players : IterPlayerIndices(g, p) = Pieces(b, p)

=============================================================================
