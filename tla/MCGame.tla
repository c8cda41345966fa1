------------------------------- MODULE MCGame -------------------------------
(***************************************************************************)
(* A rhombus of three cells a side without one of its corners, two pieces  *)
(* for each player.  Callers of apply_movement name the missing corner too.*)
(***************************************************************************)
EXTENDS Rules

MCLength == 3
MCSquare == (0..2) \X (0..2)
MCCells == MCSquare \ {<<0, 0>>}
MCStart(p) == IF p = Player1 THEN {<<2, 0>>, <<2, 1>>}
              ELSE {<<0, 2>>, <<0, 1>>}

\* Every Move, and Hops of up to three cells
MCAsked == {[type |-> "Move", path |-> q] : q \in [1..2 -> MCSquare]}
    \cup {[type |-> "Hops", path |-> q] : q \in BoundedSeq(MCSquare, 3)}

\* How a position was reached does not matter to what can happen in it.
MCView == <<board, status>>

\* What the theorems of GameProofs ask of the generator, on every board.
ASSUME MCLegalMoves == LegalMoves(Boards)

=============================================================================
