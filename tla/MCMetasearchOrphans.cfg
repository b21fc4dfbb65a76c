CONSTANTS
    c1 = c1
    c2 = c2
    c3 = c3
    None = None
    Clients = {c1, c3}
    Target <- MCTarget
    Preferred = {c1}
    Conns = {k1}
    Chans = {h1}
    Threaded = FALSE
    ExtendRecs = TRUE
    Commands = {"search", "show", "stop", "settings", "record"}
    BadSearches = {"limit"}
SPECIFICATION FairSpec
INVARIANTS NoStaleClient SessionMutexFree
PROPERTIES OrphansGo
