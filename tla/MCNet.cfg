CONSTANTS
    Chunks <- MCChunks
    MaxRetries = 2
    MAX_CHUNKS = 3
    c1 = c1
    c2 = c2
    c3 = c3
    Clients = {c1, c2, c3}
    Transports = {"tcp", "udp"}
    Moves <- MCMoves
    MaxGames = 2
    MaxLost = 1
SPECIFICATION SumSpec
CHECK_DEADLOCK FALSE
INVARIANTS
    AckedHasArrived
    GameLegal
    FirstGameGoesOn
PROPERTIES
    MessageEnds
