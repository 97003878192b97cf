\* Two connections, so that one can be drained while the other is stuck; two
\* requests each, so that a kept-alive connection is used again; two hooks,
\* so that one can fail before the other runs.
CONSTANTS
  Conns = {c1, c2}
  NHooks = 2
  MaxRequests = 2
SPECIFICATION FairSpec
INVARIANTS
  TypeOK
  NilMeansDrained
PROPERTIES
  NoAcceptAfterHooks
  NoAnswerAfterDrain
  ShutdownTerminates
  FailureEndsRun
  NoGoroutineLeak
  ContractSpec
