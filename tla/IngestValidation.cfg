\* Two request goroutines, so that one runs between any two steps of the
\* other; one tick of the clock, which moves Ahead into the window and Old out.
CONSTANTS
  Requests = {r1, r2}
  Inputs <- MCInputs
  Configured <- MCConfigured
  MaxClock = 1
SPECIFICATION Spec
INVARIANTS
  TypeOK
  EveryEventAnswered
  VerdictIsOwn
  AcceptedFits
  AcceptedTimeInWindow
  RejectionsCounted
  NoSilentRepair
PROPERTY
  ContractSpec
