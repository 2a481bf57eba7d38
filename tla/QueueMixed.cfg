SPECIFICATION Spec
CONSTANTS
  f1 = f1
  f2 = f2
  f3 = f3
  Fiber = {f1, f2, f3}
  Role <- RoleMixed
  Fuel <- FuelMixed
  Queues <- QueuesMixed
  Batches = {1, 2}
  Asked <- AskedMixed
  MaxInterrupts = 1
INVARIANTS
  NobodyWaitsForNothing
  BatchesWhole
PROPERTY
  ImplementsChannel
CHECK_DEADLOCK FALSE
