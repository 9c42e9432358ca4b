CONSTANTS
  NULL = NULL
  Services <- OnlyTransport
  Fourcc <- MCFourcc
  Generic <- MCGeneric
  Interrupts <- MCInterrupts
  Bits <- MCBits
  Params <- MCParams
  HalParams <- MCHalParams
  Registrations = {r1, r2}
  MaxWatched = 2
  Disciplined = TRUE
SPECIFICATION Spec
INVARIANT CallbackAsRegistered
