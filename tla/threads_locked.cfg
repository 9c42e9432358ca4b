CONSTANTS
  NULL = NULL
  Free = Free
  Driver = driver
  Threads = {t1, t2}
  Service = "Pressure"
  Tag = 7
  Tables <- FullTable
  Configs = {c1}
  Registrations = {r1}
  Forwards <- NoForward
  ServiceCalls <- MCServiceCalls
  LockedOps <- LifecycleOps
SPECIFICATION Spec
SYMMETRY Symmetry
INVARIANTS TypeOK LockHeldInside NoNullDereference CallbackPaired OneProvider ConfigAgrees
PROPERTY BehavesAtomically
