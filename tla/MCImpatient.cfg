CONSTANTS
    Player1 = Player1
    Player2 = Player2
    NoPlayer = NoPlayer
    Conns = {c1, c2}
    NoConn = NoConn
    Capacity = 2
    BroadcastCapacity = 2
    MaxTurns = 3
    ChoicesPerTurn = 2
    Reliable = TRUE
    MaxClosed = 1
    MaxStray = 0
    Tcp = {}
SPECIFICATION Spec
SYMMETRY ConnSymmetry
INVARIANTS
    Transcript
    LagKeepsTheLast
    HearsNoneTwice
CHECK_DEADLOCK FALSE
