-------------------------------- MODULE Game --------------------------------
(***************************************************************************)
(* The match (sternhalma/mod.rs): the board, whose turn it is, the scores  *)
(* kept by increments.  The movements to choose from are a parameter here, *)
(* constrained by what a movement is; Movement.tla has the generator.      *)
(* There are two ways into the match: the unchecked one for a movement     *)
(* from that list, and apply_movement for any movement a caller makes up.  *)
(***************************************************************************)
EXTENDS Validation

CONSTANTS AvailableMoves(_, _),     \* board, player -> pairs <<from, to>>
          Asked,                    \* the movements apply_movement is given
          MaxTurns                  \* bound of the loop that plays the match

ASSUME GameAssumption ==
    /\ MaxTurns \in Nat
    /\ \A m \in Asked : /\ m.path \in Seq(Nat \X Nat)
                        /\ m.type \in {"Move", "Hops"}
                        /\ m.type = "Move" => Len(m.path) = 2

\* On the boards of B, a movement takes a piece of the player to an empty cell.
LegalMoves(B) ==
    \A b \in B : \A p \in Players : \A m \in AvailableMoves(b, p) :
        m[1] \in Pieces(b, p) /\ m[2] \in Pieces(b, NoPlayer)

VARIABLES board, status, history

gameVars == <<board, status, history>>

GameInit ==
    /\ board = NewBoard
    /\ history = <<>>
    /\ status = [phase |-> "Playing", player |-> Player1, turns |-> 0,
                 scores |-> [p \in Players |-> 0]]

Playing == status.phase = "Playing"

\* Mutant of NextScores: the goal is not the opponent's start but one's own.
NextScoresAtHome(p, from, to) ==
    [status.scores EXCEPT ![p] = @ - (IF from \in Start(p) THEN 1 ELSE 0)
                                   + (IF to \in Start(p) THEN 1 ELSE 0)]

\* Mutant of NextScores: leaving the goal costs nothing.
NextScoresUp(p, from, to) ==
    [status.scores EXCEPT ![p] = @ + (IF to \in Goal(p) THEN 1 ELSE 0)]

\* The increments of next_status: -1 for leaving a goal cell, +1 for
\* entering one, for the mover only.
NextScores(p, from, to) ==
    [status.scores EXCEPT ![p] = @ - (IF from \in Goal(p) THEN 1 ELSE 0)
                                   + (IF to \in Goal(p) THEN 1 ELSE 0)]

\* Mutant of NextStatus: the match ends in the name of the player to move next.
NextStatusAlternating(from, to) ==
    [phase  |-> IF Winner(board') # NoPlayer THEN "Finished" ELSE "Playing",
     player |-> Opponent(status.player),
     turns  |-> status.turns + 1,
     scores |-> NextScores(status.player, from, to)]

\* next_status, on the board after the movement.  Its branch for a finished
\* match is not reached: no caller gets there.
NextStatus(from, to) ==
    LET won == Winner(board') IN
    [phase  |-> IF won # NoPlayer THEN "Finished" ELSE "Playing",
     player |-> IF won # NoPlayer THEN won ELSE Opponent(status.player),
     turns  |-> status.turns + 1,
     scores |-> NextScores(status.player, from, to)]

\* Mutant of ApplyMovement: the movement is not remembered when it wins.
ApplyMovementAtLast(from, to) ==
    /\ board' = MovePiece(board, from, to)
    /\ status' = NextStatus(from, to)
    /\ history' = IF Winner(board') = NoPlayer
                  THEN Append(history, <<from, to>>) ELSE history

\* Game::apply_movement_unchecked
ApplyMovement(from, to) ==
    /\ board' = MovePiece(board, from, to)
    /\ history' = Append(history, <<from, to>>)
    /\ status' = NextStatus(from, to)

\* The loop of playground.rs: as long as the match is neither finished nor at
\* its last turn, the agent of the player to move takes a movement from the
\* list, unchecked.  Server.tla has the loop of the server around the same call.
Turn ==
    /\ Playing /\ status.turns < MaxTurns
    /\ \E m \in AvailableMoves(board, status.player) : ApplyMovement(m[1], m[2])

\* What Game::apply_movement returns, the errors by the name of their GameError
Outcome(m) ==
    IF ~Playing THEN "GameFinished"
    ELSE IF ValidateMovement(board, m) = NoPlayer THEN "Movement"
    ELSE IF ValidateMovement(board, m) # status.player THEN "OutOfTurn"
    ELSE "Ok"

\* Game::apply_movement of a movement it accepts; an error changes nothing.
Apply(m) ==
    /\ status.turns < MaxTurns
    /\ Outcome(m) = "Ok"
    /\ ApplyMovement(Indices(m)[1], Indices(m)[2])

GameNext == Turn \/ \E m \in Asked : Apply(m)

GameSpec == GameInit /\ [][GameNext]_gameVars

----------------------------------------------------------------------------
\* Types; the scores are usize, so this includes that none underflows.
TypeOK ==
    /\ board \in Boards
    /\ status \in [phase : {"Playing", "Finished"}, player : Players,
                   turns : Nat, scores : [Players -> Nat]]
    /\ history \in Seq(Cells \X Cells)

\* The scores kept by increments are the number of goal cells occupied, as
\* Board::get_scores would count them.
ScoresMatch == \A p \in Players : status.scores[p] = Score(board, p)

\* No movement makes or loses a piece.
PiecesConserved ==
    \A p \in Players :
        Cardinality(Pieces(board, p)) = Cardinality(Start(p))

\* The match is finished exactly when a player has filled its goal: the
\* player named as the winner, and never both.
FinishedWhenWon ==
    \A p \in Players : Won(board, p) <=> ~Playing /\ status.player = p

\* The match with the board forgotten is the match the Server drives: the
\* players alternate and only a player's own move makes it the winner.
Match == INSTANCE TurnGame
    WITH status <- [phase |-> status.phase, player |-> status.player,
                    turns |-> status.turns]

MatchSpec == Match!GameSpec

=============================================================================
