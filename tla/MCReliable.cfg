CONSTANTS
    Player1 = Player1
    Player2 = Player2
    NoPlayer = NoPlayer
    Conns = {c1, c2}
    NoConn = NoConn
    Capacity = 4
    BroadcastCapacity = 8
    MaxTurns = 4
    ChoicesPerTurn = 1
    Reliable = TRUE
    MaxClosed = 2
    MaxStray = 1
    Tcp = {c1}
SPECIFICATION LiveSpec
INVARIANTS
    EveryoneSawTheEnd
PROPERTIES
    AnswersThisTurn
    Terminates
    TurnsAdvance
CHECK_DEADLOCK FALSE
