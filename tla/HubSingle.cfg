SPECIFICATION Spec
CONSTANTS
  NoMessage = NoMessage
  f1 = f1
  f2 = f2
  f3 = f3
  s1 = s1
  s2 = s2
  Fiber = {f1, f2, f3}
  Subscription = {s1, s2}
  Setups <- SlidingSingle
  Batches = {3}
  Asked = {2}
  MaxInterrupts = 1
INVARIANT
  LastIsKept
CHECK_DEADLOCK FALSE
