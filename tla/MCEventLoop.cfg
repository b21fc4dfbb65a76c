CONSTANTS
    Workers = {w1, w2}
    Jobs = {h, c1}
    None = None
    Connections = {c1}
    Timed = {c1}
    Slack <- MCSlack
    LimitFd = 3
    First = h
    InitialList <- MCInitialList
SPECIFICATION FairSpec
INVARIANTS
    NoUseAfterFree
PROPERTIES
    PoolContractKept
    DestroyedFreed
    TimeoutServed
