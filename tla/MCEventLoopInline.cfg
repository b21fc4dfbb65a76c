CONSTANTS
    Workers = {}
    Jobs = {h, c1, c2}
    None = None
    Connections = {c1, c2}
    Timed = {c1}
    Slack <- MCSlack
    LimitFd = 3
    First = h
    InitialList <- MCInitialList
SPECIFICATION FairSpec
PROPERTIES
    OthersServed
