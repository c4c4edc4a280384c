SPECIFICATION FairSpec
CONSTANTS
    Clients = {c1, c2}
    Logs <- MCLogs
    Blank = {2}
    HeaderLen = 2
    MaxSize = 3
    MaxGarbage = 4
INVARIANT LogInv
PROPERTY StreamEnds
