CONSTANTS
    Player1 = Player1
    Player2 = Player2
    NoPlayer = NoPlayer
    Conns = {c1, c2}
    NoConn = NoConn
    Capacity = 4
    BroadcastCapacity = 8
    MaxTurns = 1
    ChoicesPerTurn = 1
    Reliable = FALSE
    MaxClosed = 2
    MaxStray = 0
    Tcp = {}
SPECIFICATION LiveSpec
PROPERTY ShutsDown
CHECK_DEADLOCK FALSE
