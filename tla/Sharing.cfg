SPECIFICATION Spec
CONSTANTS
  u1 = u1
  u2 = u2
  k1 = k1
  k2 = k2
SYMMETRY Symmetry
INVARIANTS
  ItemsAccounted
  OneLookup
  InvalidatedIsGone
  ResourcesFollowOwners
  WokenOnTime
  WaitsForSomebody
  TasksRunInOrder
  JoinMerges
  CountsEverything
PROPERTY
  StopsForNobody
CHECK_DEADLOCK FALSE
