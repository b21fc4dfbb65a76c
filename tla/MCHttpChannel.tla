--------------------------- MODULE MCHttpChannel ---------------------------
EXTENDS HttpChannelProps, TLC

CONSTANTS h1, h2
MCChans == {h1, h2}

R(kind, close, alone) == [kind |-> kind, close |-> close, alone |-> alone]

MCScripts ==
    (h1 :> { << R("command", FALSE, TRUE), R("command", TRUE, TRUE) >>,
             << R("command", FALSE, TRUE), R("bad", FALSE, FALSE) >>,
             << R("command", FALSE, TRUE), R("command", TRUE, FALSE) >> }) @@
    (h2 :> { << R("command", FALSE, TRUE), R("command", FALSE, FALSE), R("command", FALSE, TRUE) >>,
             << R("proxy", FALSE, TRUE), R("command", FALSE, TRUE), R("proxy", FALSE, TRUE) >> })
=============================================================================
