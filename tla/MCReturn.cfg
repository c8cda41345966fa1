CONSTANTS
    Player1 = Player1
    Player2 = Player2
    NoPlayer = NoPlayer
    Conns = {c1, c2, c3}
    NoConn = NoConn
    Capacity = 4
    BroadcastCapacity = 8
    MaxTurns = 1
    ChoicesPerTurn = 1
    Reliable = FALSE
    MaxClosed = 1
    MaxStray = 0
    Tcp = {}
SPECIFICATION ReturnSpec
PROPERTIES
    TableSpec
    ReturnEndsPause
    HandshakesAnswered
    OrphansEnd
CHECK_DEADLOCK FALSE
