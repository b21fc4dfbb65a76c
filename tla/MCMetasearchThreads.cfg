CONSTANTS
    c1 = c1
    c2 = c2
    c3 = c3
    None = None
    Clients = {c1}
    Target <- MCTarget
    Preferred = {c1}
    Conns = {k1}
    Chans = {h1, h2}
    Threaded = TRUE
    ExtendRecs = FALSE
    Commands = {"search", "stop"}
    BadSearches = {"targets", "query"}
SPECIFICATION Spec
SYMMETRY MCSymmetry
CHECK_DEADLOCK FALSE
INVARIANTS Sessionship StartingReset
