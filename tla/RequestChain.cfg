\* Every kind of request under each kind of CORS configuration.
CONSTANTS
  BodyLimit = 2
  Inputs <- MCInputs
SPECIFICATION Spec
INVARIANTS
  TypeOK
  EveryRequestTraced
  OneId
  PanicIsAnswered
  BodyIsBounded
