SPECIFICATION Spec
CONSTANTS
  root = root
  c1 = c1
  c2 = c2
  x1 = x1
  x2 = x2
  Scope = {root, c1, c2}
  Root = root
  Finalizer = {x1, x2}
  Limits <- RootLimits
INVARIANTS
  TypeOK
  EachOnce
  ClosedHasRun
  ScopesTidy
CHECK_DEADLOCK FALSE
