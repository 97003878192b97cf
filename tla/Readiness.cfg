\* Two probes, so that a hung one can spend the time of a healthy one; two
\* requests over dependencies that change twice.
CONSTANTS
  Requests = {r1, r2}
  NProbes = 2
  MaxChanges = 2
SPECIFICATION FairSpec
INVARIANTS
  TypeOK
  ReadyIsEarned
  BlameHasCause
PROPERTY
  AlwaysAnswers
