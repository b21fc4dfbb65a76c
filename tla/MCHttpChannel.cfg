SPECIFICATION ChannelFairSpec
CONSTANTS
  Sessions = {s1}
  h1 = h1
  h2 = h2
  Chans <- MCChans
  Scripts <- MCScripts
  Watches = {show, termlist}
  None = None
  MaxRequests = 3
CHECK_DEADLOCK FALSE
INVARIANTS CountersExact UsedIsListed WatchesTrue ResponsesInOrder ClosedAnswered
PROPERTIES IdleSessionsGo RequestsAnswered
