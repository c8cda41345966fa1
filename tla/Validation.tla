----------------------------- MODULE Validation -----------------------------
(***************************************************************************)
(* The check of a given movement (sternhalma/board/movement.rs).  A        *)
(* movement is [type, path]: a Move is a path of two cells, Hops of any    *)
(* number.  The cells are whatever the caller names; that the path follows *)
(* the geometry of the board is not looked at.                             *)
(***************************************************************************)
EXTENDS Board, Sequences

\* Board::get: a cell of the board, without or with a piece
Empty(b, x) == x \in Cells /\ b[x] = NoPlayer

Occupied(b, x) == x \in Cells /\ b[x] # NoPlayer

\* Mutant of ValidateMovement: the cells on the way are looked at, not the last.
ValidateButLast(b, m) ==
    IF /\ m.path # <<>> /\ m.path[1] \in Cells
       /\ \A i \in 2..(Len(m.path) - 1) : Empty(b, m.path[i])
    THEN b[m.path[1]]
    ELSE NoPlayer

\* validate_movement: the player whose piece would move, NoPlayer for any of
\* the errors ShortHopping (no cell at all), InvalidIndex, EmptyInit, Occupied.
ValidateMovement(b, m) ==
    IF /\ m.path # <<>> /\ m.path[1] \in Cells
       /\ \A i \in 2..Len(m.path) : Empty(b, m.path[i])
    THEN b[m.path[1]]
    ELSE NoPlayer

\* MovementIndices::from
Indices(m) == <<m.path[1], m.path[Len(m.path)]>>

=============================================================================
