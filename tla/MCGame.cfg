CONSTANTS
    Player1 = Player1
    Player2 = Player2
    NoPlayer = NoPlayer
    BoardLength <- MCLength
    Cells <- MCCells
    Start <- MCStart
    Outside = Outside
    Asked <- MCAsked
    AvailableMoves <- Movements
    MaxTurns = 8
SPECIFICATION GameSpec
INVARIANTS
    TypeOK
    ScoresMatch
    PiecesConserved
    FinishedWhenWon
    GeneratorFollowsRules
    CheckedPathAgrees
    HistoryReplays
    GridIsTheBoard
VIEW MCView
PROPERTY MatchSpec
CHECK_DEADLOCK FALSE
