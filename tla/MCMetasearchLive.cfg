CONSTANTS
    c1 = c1
    c2 = c2
    c3 = c3
    None = None
    Clients = {c1, c2}
    Target <- MCTarget
    Preferred = {c1}
    Conns = {k1}
    Chans = {h1}
    Threaded = FALSE
    ExtendRecs = FALSE
    Commands = {"search", "show", "stop"}
    BadSearches = {"query"}
SPECIFICATION FairSpec
PROPERTIES BlockedAnswered
