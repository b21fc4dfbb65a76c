CONSTANTS
    Workers = {w1, w2, w3}
    Jobs = {j1, j2, j3}
    None = None
SPECIFICATION FairSpec
INVARIANTS
    ByteAccounting
    WorkConserving
    Exclusive
PROPERTIES
    ImplementsJobPool
    JobsComeBack
    DestroyReturns
