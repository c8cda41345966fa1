CONSTANTS
    Player1 = Player1
    Player2 = Player2
    NoPlayer = NoPlayer
    Conns = {c1, c2, c3}
    NoConn = NoConn
    Capacity = 4
    BroadcastCapacity = 8
    MaxTurns = 0
    ChoicesPerTurn = 1
    Reliable = TRUE
    MaxClosed = 3
    MaxStray = 0
    Tcp = {}
SPECIFICATION LiveSpec
PROPERTY ExcessRejected
CHECK_DEADLOCK FALSE
