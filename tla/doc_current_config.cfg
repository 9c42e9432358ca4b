CONSTANTS
  NULL = NULL
  Drivers = {d1}
  Chosen = {"Pressure", "Battery"}
  Services = {"Pressure", "Battery"}
  Fourcc <- MCFourcc
  Generic <- MCGeneric
  Interrupts <- MCInterrupts
  Calls <- MCCalls
  BaseOps <- MCBaseOps
  Tables <- FullTables
  Configs = {c1}
  Registrations = {r1}
  ForeignOps <- NoForeignOps
SPECIFICATION Spec
INVARIANT ConfigGetCurrent
