CONSTANTS
  NULL = NULL
  Drivers = {d1}
  Chosen <- AllServices
  Services <- AllServices
  Fourcc <- MCFourcc
  Generic <- MCGeneric
  Interrupts <- MCInterrupts
  Calls <- MCCalls
  BaseOps <- MCBaseOps
  Tables <- FullTables
  Configs = {}
  Registrations = {}
  ForeignOps <- OneOfEachKind
SPECIFICATION Spec
INVARIANT DispatchTypeSafe
PROPERTY WrappersApart
