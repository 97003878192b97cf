CONSTANTS
  BodyLimit = 2
  Inputs <- MCInputs
SPECIFICATION Spec
INVARIANT
  OneLinePerRequest
