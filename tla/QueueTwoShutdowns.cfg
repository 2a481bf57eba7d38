SPECIFICATION Spec
CONSTANTS
  f1 = f1
  f2 = f2
  f3 = f3
  Fiber = {f1, f2, f3}
  Role <- RoleClosers
  Fuel <- FuelClosers
  Queues <- QueuesOne
  Batches = {1}
  Asked <- AskedMixed
  MaxInterrupts = 0
INVARIANT
  ShutdownInterrupts
CHECK_DEADLOCK FALSE
