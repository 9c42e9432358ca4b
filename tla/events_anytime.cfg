CONSTANTS
  NULL = NULL
  Services <- AllButTransport
  Fourcc <- MCFourcc
  Generic <- MCGeneric
  Interrupts <- MCInterrupts
  Bits <- MCBits
  Params <- MCParams
  HalParams <- MCHalParams
  Registrations = {r1, r2}
  MaxWatched = 1
  Disciplined = FALSE
SPECIFICATION Spec
INVARIANTS SettledCallbacks
