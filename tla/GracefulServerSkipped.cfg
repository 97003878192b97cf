CONSTANTS
  Conns = {c1}
  NHooks = 1
  MaxRequests = 1
SPECIFICATION FairSpec
INVARIANT
  AnsweredMeansFlushed
