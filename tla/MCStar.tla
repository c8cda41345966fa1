------------------------------- MODULE MCStar -------------------------------
(***************************************************************************)
(* The board of the program, by the tables of board/lut.rs: row i of the   *)
(* star takes the columns of Row(i).                                       *)
(***************************************************************************)
EXTENDS Rules

StarLength == 17

Row(i) == CASE i \in 0..3   -> (12 - i)..12
            [] i \in 4..8   -> 4..(20 - i)
            [] i \in 9..12  -> (12 - i)..12
            [] i \in 13..16 -> 4..(20 - i)

StarCells == {x \in (0..16) \X (0..16) : x[2] \in Row(x[1])}

StarStart(p) ==
    IF p = Player1
    THEN {x \in (12..16) \X (4..8) : x[1] + x[2] <= 20}
    ELSE {x \in (0..4) \X (8..12) : x[1] + x[2] >= 12}

\* Theorem DistancesOnStar asks this of the cells,
ASSUME StarOfFour == StarShaped(4)

\* and theorem TurnSeenAcross this of the cells and where players start.
ASSUME StarSymmetric == Symmetric

=============================================================================
