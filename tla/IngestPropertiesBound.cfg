\* One request is enough to see it.
CONSTANTS
  Requests = {r1}
  Inputs <- MCInputs
  Configured <- MCConfigured
  MaxClock = 1
SPECIFICATION Spec
INVARIANT
  TooLargeAsStored
