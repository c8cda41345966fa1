------------------------------ MODULE Players ------------------------------
(***************************************************************************)
(* The two players of a match (board/player.rs).  NoPlayer stands for the  *)
(* None of an Option<Player>.                                              *)
(***************************************************************************)
EXTENDS Naturals

CONSTANTS Player1, Player2, NoPlayer

ASSUME PlayersAssumption ==
    /\ Player1 # Player2
    /\ NoPlayer \notin {Player1, Player2}

Players == {Player1, Player2}

\* Player::opponent
Opponent(p) == IF p = Player1 THEN Player2 ELSE Player1

\* The player who makes move number n of a match, the first being number 0:
\* not code, but what the alternation of turns comes to.
Mover(n) == IF n % 2 = 0 THEN Player1 ELSE Player2

=============================================================================
