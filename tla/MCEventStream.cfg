SPECIFICATION FairSpec
CONSTANTS
    MaxEvents = 4
    MaxConns = 3
    Cap = 2
    Labelled = {2, 3}
    OfContainer = {1, 3}
INVARIANTS InOrder GapsOnlyBetweenConnections StreamInv
PROPERTIES Reconnects StreamEnds
