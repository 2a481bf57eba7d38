SPECIFICATION FairSpec
CONSTANTS
  NoFiber = NoFiber
  f1 = f1
  f2 = f2
  f3 = f3
  Fiber = {f1, f2, f3}
  Root = f1
  Ops = {"region", "async", "yield", "fork", "interrupt", "await", "onExit"}
  Fuel <- FuelTrio
  CooperativeYielding = {f1, f2, f3}
  MaxInterrupts = 1
PROPERTIES
  InterruptedEnds
  ExitReachesAwaiters
CHECK_DEADLOCK FALSE
