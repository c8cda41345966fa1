CONSTANTS
    Player1 = Player1
    Player2 = Player2
    NoPlayer = NoPlayer
    Conns = {c1, c2, c3}
    NoConn = NoConn
    Capacity = 4
    BroadcastCapacity = 8
    MaxTurns = 2
    ChoicesPerTurn = 1
    Reliable = FALSE
    MaxClosed = 1
    MaxStray = 0
    Tcp = {}
SPECIFICATION Spec
SYMMETRY ConnSymmetry
INVARIANTS
    TypeOK
    SeatOrAway
    SeatOwner
    TurnOnItsWay
    TurnRouting
    Transcript
    Perspective
    HearsEveryMove
    HearsInOrder
    HearsNoneTwice
    OneExchange
PROPERTY SeatsEmptyFirst
CHECK_DEADLOCK FALSE
