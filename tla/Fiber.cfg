SPECIFICATION Spec
CONSTANTS
  NoFiber = NoFiber
  f1 = f1
  f2 = f2
  f3 = f3
  Fiber = {f1, f2}
  Root = f1
  Ops = {"flatMap", "catchAll", "forcedYield", "region", "async", "yield", "fork", "daemon", "interrupt", "await", "complete", "onExit"}
  Fuel <- FuelDuo
  CooperativeYielding = {f1}
  MaxInterrupts = 1
INVARIANTS
  TypeOK
  InterruptionStops
  EndsInOrder
  NoLostWakeup
  ResumedOnce
  ChildrenEndFirst
  AwaitersKnown
PROPERTY
  ExitIsFinal
CHECK_DEADLOCK FALSE
