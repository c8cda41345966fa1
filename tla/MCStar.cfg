CONSTANTS
    Player1 = Player1
    Player2 = Player2
    NoPlayer = NoPlayer
    BoardLength <- StarLength
    Cells <- StarCells
    Start <- StarStart
    Outside = Outside
    Asked = {}
    AvailableMoves <- Movements
    MaxTurns = 2
SPECIFICATION GameSpec
INVARIANTS
    RotatedTurnMakesSense
    DistanceIsSteps
CHECK_DEADLOCK FALSE
