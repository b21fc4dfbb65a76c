CONSTANTS
    c1 = c1
    c2 = c2
    c3 = c3
    None = None
    Clients = {c1, c2}
    Target <- MCTarget
    Preferred = {c1}
    Conns = {k1, k2}
    Chans = {h1, h2}
    Threaded = FALSE
    ExtendRecs = FALSE
    Commands = {"search", "stop", "showpref", "termlist"}
    BadSearches = {}
SPECIFICATION Spec
SYMMETRY MCSymmetry
INVARIANTS RefExact Ownership ActiveWillEnd RequestsTracked AnsweredOnce NoWaitForNothing
