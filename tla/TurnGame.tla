------------------------------ MODULE TurnGame ------------------------------
(***************************************************************************)
(* What a match promises whatever the board is: GameStatus of              *)
(* sternhalma/mod.rs without its scores.  The two players move in turn     *)
(* until a move wins for the player who made it.  Server.tla drives this   *)
(* state; Game.tla is the game on the board and implements it.             *)
(***************************************************************************)
EXTENDS Players

VARIABLE status     \* [phase, player, turns]; player is the winner once
                    \* phase is "Finished", else the player to move

\* Game::new: Player1 begins.
GameInit == status = [phase |-> "Playing", player |-> Player1, turns |-> 0]

Playing == status.phase = "Playing"

Statuses == [phase : {"Playing", "Finished"}, player : Players, turns : Nat]

\* Game::next_status: either the move completed the mover's goal, or the
\* opponent is next.  Both count the turn.
Move ==
    /\ Playing
    /\ \/ status' = [phase  |-> "Playing",
                     player |-> Opponent(status.player),
                     turns  |-> status.turns + 1]
       \/ status' = [phase  |-> "Finished",
                     player |-> status.player,
                     turns  |-> status.turns + 1]

GameSpec == GameInit /\ [][Move]_status

=============================================================================
