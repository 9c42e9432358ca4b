CONSTANTS
  NULL = NULL
  Free = Free
  Driver = driver
  Threads = {t1, t2}
  Service = "Pressure"
  Tag = 7
  Tables <- FullTable
  Configs = {}
  Registrations = {r1}
  Forwards <- OneForward
  ServiceCalls <- MCServiceCalls
  LockedOps <- EveryOp
SPECIFICATION FairSpec
PROPERTIES CallsEnd LockComesBack
