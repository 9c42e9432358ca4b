CONSTANTS
  NULL = NULL
  Drivers = {d1}
  Chosen = {"Pressure", "Humidity", "Magnetometer"}
  Services = {"Pressure", "Humidity", "Magnetometer"}
  Fourcc <- MCFourcc
  Generic <- MCGeneric
  Interrupts <- MCInterrupts
  Calls <- MCCalls
  BaseOps <- MCBaseOps
  Tables <- SomeTables
  Configs = {c1, c2}
  Registrations = {r1}
  ForeignOps <- ReadersAndForwards
SPECIFICATION Spec
INVARIANTS TypeOK DispatchTypeSafe OneProvider ConfigAgrees
PROPERTY ForeignCallInert
